---- MODULE Spec2Model ----
(***************************************************************************)
(* Regression gate of the voice-AI test suite:                             *)
(*   tests/regression_detector.py  (RegressionDetector, main)              *)
(*                                                                         *)
(* Metric names and file names are sequences of one-character strings, so  *)
(* that substring and suffix tests are computed the way Python computes    *)
(* them.  Metric values are integers (a fixed unit of the measured         *)
(* quantity); fractions derived from them (change_pct, thresholds,         *)
(* threshold_exceeded) are exact rationals in lowest terms.  Rounding of   *)
(* binary floating point is not modelled.                                  *)
(***************************************************************************)
EXTENDS Integers, Sequences, FiniteSets, TLC

(***************************************************************************)
(* Bounds of the model.                                                    *)
(***************************************************************************)
\* check_regression is applied to every baseline and current value in -MaxVal..MaxVal
MaxVal == 30
\* a snapshot file read by detect_regressions lists at most MaxMetrics metrics
MaxMetrics == 2

(***************************************************************************)
(* Strings.                                                                *)
(***************************************************************************)
K_wer == <<"w","e","r">>
K_latency_ms == <<"l","a","t","e","n","c","y","_","m","s">>
K_false_interruption_rate ==
    <<"f","a","l","s","e","_","i","n","t","e","r","r","u","p","t","i","o","n","_","r","a","t","e">>
K_accuracy == <<"a","c","c","u","r","a","c","y">>
K_pesq == <<"p","e","s","q">>
K_success_rate == <<"s","u","c","c","e","s","s","_","r","a","t","e">>

\* metric names recorded by the test suite (tests/stt, tests/tts, tests/conversation)
N_stt_wer_clean == <<"s","t","t","_">> \o K_wer \o <<"_","c","l","e","a","n">>
N_tts_latency_ms == <<"t","t","s","_">> \o K_latency_ms
N_false_interruption_rate == K_false_interruption_rate
N_backchannel_accuracy == <<"b","a","c","k","c","h","a","n","n","e","l","_">> \o K_accuracy
N_pesq_score == K_pesq \o <<"_","s","c","o","r","e">>
N_task_success_rate == <<"t","a","s","k","_">> \o K_success_rate
\* a name in which two taxonomy keys occur: "answer" contains "wer"
N_answer_accuracy == <<"a","n","s","w","e","r","_">> \o K_accuracy
\* a name in which no taxonomy key occurs
\* a name in which a later key of the dict occurs before an earlier one
N_pesq_latency_ms == K_pesq \o <<"_">> \o K_latency_ms
N_wer_clean == K_wer \o <<"_","c","l","e","a","n">>
N_custom_thing_unrelated ==
    <<"c","u","s","t","o","m","_","t","h","i","n","g","_","u","n","r","e","l","a","t","e","d">>

\* Python: k in s
IsSubstring(k, s) ==
    \E i \in 1..(Len(s) - Len(k) + 1) : SubSeq(s, i, i + Len(k) - 1) = k

\* Python: s.endswith(k)
EndsWith(s, k) ==
    /\ Len(k) <= Len(s)
    /\ SubSeq(s, Len(s) - Len(k) + 1, Len(s)) = k

(***************************************************************************)
(* Exact fractions.                                                        *)
(***************************************************************************)
Abs(x) == IF x < 0 THEN -x ELSE x

RECURSIVE GCD(_, _)
GCD(a, b) == IF b = 0 THEN a ELSE GCD(b, a % b)

\* n / d for d # 0, in lowest terms with a positive denominator
Frac(n, d) ==
    LET g == GCD(Abs(n), Abs(d))
        s == IF d < 0 THEN -1 ELSE 1
    IN  [num |-> (s * n) \div g, den |-> (s * d) \div g]

RatSub(x, y) == Frac(x.num * y.den - y.num * x.den, x.den * y.den)
RatAbs(x) == [num |-> Abs(x.num), den |-> x.den]
RatTimes(x, k) == Frac(x.num * k, x.den)
RatGT(x, y) == x.num * y.den > y.num * x.den
RatLT(x, y) == x.num * y.den < y.num * x.den
RatZero == Frac(0, 1)

(***************************************************************************)
(* RegressionDetector: threshold table and single-metric check.            *)
(***************************************************************************)
\* self.thresholds, in the insertion order of the dict
thresholds ==
    << [type |-> K_wer, warning |-> Frac(10, 100), critical |-> Frac(20, 100)],
       [type |-> K_latency_ms, warning |-> Frac(20, 100), critical |-> Frac(30, 100)],
       [type |-> K_false_interruption_rate,
            warning |-> Frac(15, 100), critical |-> Frac(25, 100)],
       [type |-> K_accuracy, warning |-> Frac(-5, 100), critical |-> Frac(-10, 100)],
       [type |-> K_pesq, warning |-> Frac(-5, 100), critical |-> Frac(-10, 100)],
       [type |-> K_success_rate, warning |-> Frac(-10, 100), critical |-> Frac(-15, 100)] >>

\* Python None for a metric type (an empty name is as falsy as None at `if not metric_type`)
NoType == << >>

\* the list literal of the lower-is-better branch
LowerIsBetterTypes == {K_wer, K_latency_ms, K_false_interruption_rate}

\* FirstType falling back to a type when no key occurs in the name
FirstType_defaulting(hits) ==
    IF hits = {} THEN K_latency_ms
    ELSE thresholds[CHOOSE i \in hits : \A j \in hits : i <= j].type

\* the last of the keys at the positions `hits` in place of the first
FirstType_last(hits) ==
    IF hits = {} THEN NoType
    ELSE thresholds[CHOOSE i \in hits : \A j \in hits : i >= j].type

\* the first of the keys at the positions `hits`, in the order of the dict
FirstType(hits) ==
    IF hits = {} THEN NoType
    ELSE thresholds[CHOOSE i \in hits : \A j \in hits : i <= j].type

get_metric_type(metric_name) ==
    FirstType({i \in 1..Len(thresholds) : IsSubstring(thresholds[i].type, metric_name)})

ThresholdsOf(metric_type) ==
    thresholds[CHOOSE i \in 1..Len(thresholds) : thresholds[i].type = metric_type]

\* Python None for a result
None == [kind |-> "None"]

NoRegression == [is_regression |-> FALSE, severity |-> "info", threshold_exceeded |-> RatZero]

\* ClassifyLower with the critical tier measured from the warning threshold
ClassifyLower_fromWarning(change_pct, th) ==
    IF RatGT(change_pct, th.critical)
    THEN [is_regression |-> TRUE, severity |-> "critical",
          threshold_exceeded |-> RatSub(change_pct, th.warning)]
    ELSE IF RatGT(change_pct, th.warning)
    THEN [is_regression |-> TRUE, severity |-> "warning",
          threshold_exceeded |-> RatSub(change_pct, th.warning)]
    ELSE NoRegression

\* ClassifyLower with >= in place of >
ClassifyLower_nonStrict(change_pct, th) ==
    IF ~RatLT(change_pct, th.critical)
    THEN [is_regression |-> TRUE, severity |-> "critical",
          threshold_exceeded |-> RatSub(change_pct, th.critical)]
    ELSE IF ~RatLT(change_pct, th.warning)
    THEN [is_regression |-> TRUE, severity |-> "warning",
          threshold_exceeded |-> RatSub(change_pct, th.warning)]
    ELSE NoRegression

\* lower is better: the metric type's branch of check_regression
ClassifyLower(change_pct, th) ==
    IF RatGT(change_pct, th.critical)
    THEN [is_regression |-> TRUE, severity |-> "critical",
          threshold_exceeded |-> RatSub(change_pct, th.critical)]
    ELSE IF RatGT(change_pct, th.warning)
    THEN [is_regression |-> TRUE, severity |-> "warning",
          threshold_exceeded |-> RatSub(change_pct, th.warning)]
    ELSE NoRegression

\* ClassifyHigher with the critical and warning tests in the wrong order
ClassifyHigher_warningFirst(change_pct, th) ==
    IF RatLT(change_pct, th.warning)
    THEN [is_regression |-> TRUE, severity |-> "warning",
          threshold_exceeded |-> RatAbs(RatSub(change_pct, th.warning))]
    ELSE IF RatLT(change_pct, th.critical)
    THEN [is_regression |-> TRUE, severity |-> "critical",
          threshold_exceeded |-> RatAbs(RatSub(change_pct, th.critical))]
    ELSE NoRegression

\* ClassifyHigher without abs()
ClassifyHigher_signed(change_pct, th) ==
    IF RatLT(change_pct, th.critical)
    THEN [is_regression |-> TRUE, severity |-> "critical",
          threshold_exceeded |-> RatSub(change_pct, th.critical)]
    ELSE IF RatLT(change_pct, th.warning)
    THEN [is_regression |-> TRUE, severity |-> "warning",
          threshold_exceeded |-> RatSub(change_pct, th.warning)]
    ELSE NoRegression

\* higher is better: the else branch of check_regression
ClassifyHigher(change_pct, th) ==
    IF RatLT(change_pct, th.critical)
    THEN [is_regression |-> TRUE, severity |-> "critical",
          threshold_exceeded |-> RatAbs(RatSub(change_pct, th.critical))]
    ELSE IF RatLT(change_pct, th.warning)
    THEN [is_regression |-> TRUE, severity |-> "warning",
          threshold_exceeded |-> RatAbs(RatSub(change_pct, th.warning))]
    ELSE NoRegression

\* check_regression without its zero guard
BaselineIsZero_unguarded(baseline_value) == FALSE

\* the guard of the first return of check_regression
BaselineIsZero(baseline_value) == baseline_value = 0

\* Python: the exception a division by zero raises
ZeroDivisionError == [kind |-> "ZeroDivisionError"]

\* the branch on the metric type
Verdict(metric_type, change_pct) ==
    IF metric_type \in LowerIsBetterTypes
    THEN ClassifyLower(change_pct, ThresholdsOf(metric_type))
    ELSE ClassifyHigher(change_pct, ThresholdsOf(metric_type))

\* a result returned whatever is_regression is, with the initial severity 'info'
ResultOf_always(metric_name, baseline_value, current_value, change_pct, v) ==
    [kind |-> "RegressionResult",
     metric_name |-> metric_name,
     baseline_value |-> baseline_value,
     current_value |-> current_value,
     change_percent |-> RatTimes(change_pct, 100),
     is_regression |-> v.is_regression,
     severity |-> v.severity,
     threshold_exceeded |-> RatTimes(v.threshold_exceeded, 100)]

\* `if is_regression: return RegressionResult(...)`, else None
ResultOf(metric_name, baseline_value, current_value, change_pct, v) ==
    IF v.is_regression
    THEN [kind |-> "RegressionResult",
          metric_name |-> metric_name,
          baseline_value |-> baseline_value,
          current_value |-> current_value,
          change_percent |-> RatTimes(change_pct, 100),
          is_regression |-> TRUE,
          severity |-> v.severity,
          threshold_exceeded |-> RatTimes(v.threshold_exceeded, 100)]
    ELSE None

\* check_regression once change_pct and metric_type are computed
CheckChange(metric_name, baseline_value, current_value, change_pct, metric_type) ==
    IF metric_type = NoType THEN None
    ELSE ResultOf(metric_name, baseline_value, current_value, change_pct,
                  Verdict(metric_type, change_pct))

check_regression(metric_name, baseline_value, current_value) ==
    IF BaselineIsZero(baseline_value) THEN None
    ELSE IF baseline_value = 0 THEN ZeroDivisionError
    ELSE CheckChange(metric_name, baseline_value, current_value,
                     Frac(current_value - baseline_value, baseline_value),
                     get_metric_type(metric_name))

(***************************************************************************)
(* RegressionDetector: batch scan, report and exit status.                 *)
(***************************************************************************)
GlobSuffix == <<"_","m","e","t","r","i","c","s",".","j","s","o","n">>
F_stt_latency_metrics == <<"s","t","t","_","l","a","t","e","n","c","y">> \o GlobSuffix
F_tts_quality_metrics == <<"t","t","s","_","q","u","a","l","i","t","y">> \o GlobSuffix
F_regression_report ==
    <<"r","e","g","r","e","s","s","i","o","n","_","r","e","p","o","r","t",".","j","s","o","n">>

\* the pattern '*.json' in place of '*_metrics.json'
MatchesGlob_anyJson(file_name) == EndsWith(file_name, <<".","j","s","o","n">>)

\* Path.glob('*_metrics.json') on one file name
MatchesGlob(file_name) == EndsWith(file_name, GlobSuffix)

\* save_to_file: detailed_path = output_dir / f"detailed_{filename}"
DetailedPrefix == <<"d","e","t","a","i","l","e","d","_">>
detailed_name(filename) == DetailedPrefix \o filename
F_detailed_stt_latency_metrics == detailed_name(F_stt_latency_metrics)

\* the file names a directory of the model may hold
CurrentFileNames == {F_stt_latency_metrics, F_tts_quality_metrics, F_regression_report}
BaselineFileNames == {F_stt_latency_metrics, F_tts_quality_metrics}

\* the directories that save_to_file('stt_latency_metrics.json') fills: the dump and the
\* summary are written together, so a directory holds the dump only next to its summary
SavedFileNames == {F_stt_latency_metrics, F_detailed_stt_latency_metrics}
SavedDirs ==
    {d \in SUBSET SavedFileNames :
        F_detailed_stt_latency_metrics \in d => F_stt_latency_metrics \in d}

\* a stats record of a snapshot file; only the mean is read by the detector
Stats(m) == [k \in {"mean"} |-> m]
NoMean == [k \in {} |-> 0]

\* Python: stats.get(key, default)
Get(stats, key, default) == IF key \in DOMAIN stats THEN stats[key] ELSE default

\* the metric names and stats the snapshot files of the model are written from
PipelineNames == {N_stt_wer_clean, N_backchannel_accuracy, N_custom_thing_unrelated}
CurrentStats == {Stats(20), Stats(30)}
BaselineStats == {Stats(0), Stats(22), NoMean}

\* the "metrics" object of a current file: name/stats pairs in file order, names distinct
CurrentMetricLists ==
    LET Entries == [name : PipelineNames, stats : CurrentStats]
        Lists == UNION {[1..n -> Entries] : n \in 0..MaxMetrics}
    IN  {l \in Lists : \A i, j \in 1..Len(l) : l[i].name = l[j].name => i = j}

\* the "metrics" object of a baseline file: it is only looked up by name
BaselineMetricDicts ==
    UNION {[S -> BaselineStats] :
              S \in {T \in SUBSET PipelineNames : Cardinality(T) <= MaxMetrics}}

\* what json.load finds in a file: a snapshot, or text that is no JSON
Malformed == [kind |-> "malformed"]
CurrentContents == {Malformed} \cup {[kind |-> "summary", metrics |-> l] : l \in CurrentMetricLists}
BaselineContents == {Malformed} \cup {[kind |-> "summary", metrics |-> d] : d \in BaselineMetricDicts}

\* the raw-sample dump of save_to_file: a mapping from metric names to lists of samples,
\* with no key 'metrics'
DetailedDump == [kind |-> "detailed", names |-> PipelineNames]

\* what a file of the current, of the baseline directory may hold, by its name
CurrentContentsOf(file_name) ==
    IF file_name = F_detailed_stt_latency_metrics
    THEN {Malformed, DetailedDump} ELSE CurrentContents
BaselineContentsOf(file_name) ==
    IF file_name = F_detailed_stt_latency_metrics
    THEN {Malformed, DetailedDump} ELSE BaselineContents

\* load_metrics of an existing file: json.load raises on text that is no JSON
LoadRaises(content) == content.kind = "malformed"

\* `current_metrics.get('metrics', {}).items()`
CurrentMetricsOf(content) == IF content.kind = "summary" THEN content.metrics ELSE << >>
\* `baseline_metrics.get('metrics', {})`
BaselineMetricsOf(content) == IF content.kind = "summary" THEN content.metrics ELSE << >>

EmptyBuckets == [critical |-> << >>, warning |-> << >>, info |-> << >>]

\* `if result: regressions[result.severity].append(result)`
add_result(result, regs) ==
    IF result.kind = "RegressionResult"
    THEN [regs EXCEPT ![result.severity] = Append(@, result)]
    ELSE regs

\* `break` in place of `continue`
AfterSkippedFile_break(fs) == << >>

\* `continue` of a current file that has no baseline file: the files left to scan
AfterSkippedFile(fs) == Tail(fs)

\* `break` in place of `continue`
AfterSkippedMetric_break(items) == << >>

\* `continue` of a metric that the baseline file lacks: the metrics left to compare
AfterSkippedMetric(items) == Tail(items)

\* `result = self.check_regression(...)` and `if result: ...append(result)`
Checked(result, baseline_value, current_value, regs) ==
    [op |-> "check", baseline_value |-> baseline_value, current_value |-> current_value,
     result |-> result, regressions |-> add_result(result, regs)]

\* the 95th percentile compared in place of the mean
ComparedStat_p95 == "p95"

\* `# Use mean for comparison`: the key read from both stats records
ComparedStat == "mean"

\* an iteration that classifies nothing once the run holds a critical result
compare_metric_untilCritical(item, base, regs) ==
    IF item.name \notin DOMAIN base
    THEN [op |-> "skip_metric", baseline_value |-> 0, current_value |-> 0,
          result |-> None, regressions |-> regs]
    ELSE Checked(IF regs.critical # << >> THEN None
                 ELSE check_regression(item.name,
                                       Get(base[item.name], ComparedStat, 0),
                                       Get(item.stats, ComparedStat, 0)),
                 Get(base[item.name], ComparedStat, 0),
                 Get(item.stats, ComparedStat, 0),
                 regs)

\* one iteration of the metric loop of detect_regressions
compare_metric(item, base, regs) ==
    IF item.name \notin DOMAIN base
    THEN [op |-> "skip_metric", baseline_value |-> 0, current_value |-> 0,
          result |-> None, regressions |-> regs]
    ELSE Checked(check_regression(item.name,
                                  Get(base[item.name], ComparedStat, 0),
                                  Get(item.stats, ComparedStat, 0)),
                 Get(base[item.name], ComparedStat, 0),
                 Get(item.stats, ComparedStat, 0),
                 regs)

\* has_critical_regressions counting every bucket
has_critical_regressions_anySeverity(regs) ==
    Len(regs.critical) + Len(regs.warning) + Len(regs.info) > 0

has_critical_regressions(regs) == Len(regs.critical) > 0

ReportEntry(severity, reg) ==
    [metric_name |-> reg.metric_name,
     severity |-> severity,
     baseline_value |-> reg.baseline_value,
     current_value |-> reg.current_value,
     change_percent |-> reg.change_percent,
     threshold_exceeded |-> reg.threshold_exceeded]

EntriesOf(regs, severity) ==
    [i \in 1..Len(regs[severity]) |-> ReportEntry(severity, regs[severity][i])]

\* the report listing the warnings before the critical results
save_report_warningFirst(regs) ==
    [total_regressions |-> Len(regs.critical) + Len(regs.warning) + Len(regs.info),
     by_severity |-> [s \in {"critical", "warning", "info"} |-> Len(regs[s])],
     regressions |-> EntriesOf(regs, "warning") \o EntriesOf(regs, "critical")
                        \o EntriesOf(regs, "info")]

save_report(regs) ==
    [total_regressions |-> Len(regs.critical) + Len(regs.warning) + Len(regs.info),
     by_severity |-> [s \in {"critical", "warning", "info"} |-> Len(regs[s])],
     regressions |-> EntriesOf(regs, "critical") \o EntriesOf(regs, "warning")
                        \o EntriesOf(regs, "info")]

NoReport == [total_regressions |-> 0, by_severity |-> << >>, regressions |-> << >>]

(***************************************************************************)
(* MetricsCollector: the statistics of a series.  A series is a sequence   *)
(* of samples; `values` is the sequence of their integer values.  A        *)
(* statistic is a fraction, count is a natural number, and the standard    *)
(* deviation is the exact square root of a fraction.                       *)
(***************************************************************************)
RatLE(x, y) == x.num * y.den <= y.num * x.den
RatOf(v) == Frac(v, 1)

\* math.sqrt of a fraction, kept exact
Sqrt(x) == IF x = RatZero THEN RatZero ELSE [sqrt |-> x]

StatisticsError == [kind |-> "StatisticsError"]

\* `values = [m["value"] for m in self.metrics[metric_name]]`
ValuesOf(samples) == [i \in 1..Len(samples) |-> samples[i].value]

RECURSIVE SumTo(_, _)
SumTo(values, n) == IF n = 0 THEN 0 ELSE values[n] + SumTo(values, n - 1)
Sum(values) == SumTo(values, Len(values))

RECURSIVE SumSqTo(_, _)
SumSqTo(values, n) == IF n = 0 THEN 0 ELSE values[n] * values[n] + SumSqTo(values, n - 1)
SumSq(values) == SumSqTo(values, Len(values))

RangeOf(values) == {values[i] : i \in 1..Len(values)}
MinOf(values) == CHOOSE v \in RangeOf(values) : \A w \in RangeOf(values) : v <= w
MaxOf(values) == CHOOSE v \in RangeOf(values) : \A w \in RangeOf(values) : v >= w

\* sorted(values)[k - 1]: the k-th smallest value, k in 1..len(values)
Kth(values, k) ==
    CHOOSE v \in RangeOf(values) :
        /\ Cardinality({i \in 1..Len(values) : values[i] < v}) < k
        /\ k <= Cardinality({i \in 1..Len(values) : values[i] <= v})

py_mean(values) == Frac(Sum(values), Len(values))

py_median(values) ==
    IF Len(values) % 2 = 1
    THEN RatOf(Kth(values, (Len(values) + 1) \div 2))
    ELSE Frac(Kth(values, Len(values) \div 2) + Kth(values, Len(values) \div 2 + 1), 2)

\* statistics.variance: the sample variance, sum((x - mean)^2) / (n - 1)
py_variance(values) ==
    Frac(Len(values) * SumSq(values) - Sum(values) * Sum(values),
         Len(values) * (Len(values) - 1))

\* statistics.stdev raises on fewer than two values
py_stdev(values) ==
    IF Len(values) < 2 THEN StatisticsError ELSE Sqrt(py_variance(values))

\* `j = 1 if j < 1 else ld-1 if j > ld-1 else j`
Clamp(j, lo, hi) == IF j < lo THEN lo ELSE IF j > hi THEN hi ELSE j

\* `(data[j - 1] * (n - delta) + data[j] * delta) / n` with delta = i*m - j*n, m = ld + 1
Interpolated(values, n, i, j) ==
    Frac(Kth(values, j) * (n - (i * (Len(values) + 1) - j * n))
            + Kth(values, j + 1) * (i * (Len(values) + 1) - j * n),
         n)

\* the nearest-rank estimate in place of the interpolation: the value of rank
\* ceil(i * ld / n)
py_quantile_nearestRank(values, n, i) ==
    RatOf(Kth(values, (i * Len(values) + n - 1) \div n))

\* statistics.quantiles(values, n=n)[i - 1], method 'exclusive': the i-th of the n - 1 cut
\* points; raises on fewer than two values
py_quantile(values, n, i) ==
    IF Len(values) < 2 THEN StatisticsError
    ELSE Interpolated(values, n, i,
                      Clamp((i * (Len(values) + 1)) \div n, 1, Len(values) - 1))

(***************************************************************************)
(* MetricsCollector: self.metrics is a dict in insertion order, modelled   *)
(* as a sequence of entries [name, samples] with distinct names.           *)
(***************************************************************************)
HasKey(d, name) == \E i \in 1..Len(d) : d[i].name = name
IndexOf(d, name) == CHOOSE i \in 1..Len(d) : d[i].name = name
SeriesOf(d, name) == d[IndexOf(d, name)].samples

\* the sample built by record; `metadata or {}` of a call without metadata
Sample(value, now) == [value |-> value, timestamp |-> now, metadata |-> << >>]

\* `self.metrics[metric_name] = []` executed on every call
WithSeries_reset(d, name) ==
    IF HasKey(d, name)
    THEN [d EXCEPT ![IndexOf(d, name)].samples = << >>]
    ELSE Append(d, [name |-> name, samples |-> << >>])

\* `if metric_name not in self.metrics: self.metrics[metric_name] = []`
WithSeries(d, name) ==
    IF HasKey(d, name) THEN d ELSE Append(d, [name |-> name, samples |-> << >>])

\* `self.metrics[metric_name].append({...})`
AppendSample(d, name, sample) ==
    [d EXCEPT ![IndexOf(d, name)].samples = Append(@, sample)]

record(d, metric_name, value, now) ==
    AppendSample(WithSeries(d, metric_name), metric_name, Sample(value, now))

\* stdev computed for every series, also of one sample
StdevDefined_always(n) == TRUE
\* `if len(values) > 1` of stdev
StdevDefined(n) == n > 1
\* `if len(values) > 1` of p50
UsesP50Quantile(n) == n > 1
\* p95 interpolated from ten samples on
UsesP95Quantile_from10(n) == n >= 10
\* `if len(values) >= 20`
UsesP95Quantile(n) == n >= 20
\* `if len(values) >= 100`
UsesP99Quantile(n) == n >= 100

stdev_of(values) == IF StdevDefined(Len(values)) THEN py_stdev(values) ELSE RatZero
p50_of(values) ==
    IF UsesP50Quantile(Len(values)) THEN py_quantile(values, 2, 1) ELSE RatOf(values[1])
p95_of(values) ==
    IF UsesP95Quantile(Len(values)) THEN py_quantile(values, 20, 19)
    ELSE RatOf(MaxOf(values))
\* the first cut point of the hundred in place of the 99th
p99_of_firstCut(values) ==
    IF UsesP99Quantile(Len(values)) THEN py_quantile(values, 100, 1)
    ELSE RatOf(MaxOf(values))
p99_of(values) ==
    IF UsesP99Quantile(Len(values)) THEN py_quantile(values, 100, 99)
    ELSE RatOf(MaxOf(values))

\* a raised exception, as a value
IsError(x) == "kind" \in DOMAIN x

\* the dict literal returned by get_stats, once its four guarded entries are computed;
\* an exception raised while computing one of them leaves get_stats
StatsRecord(values, stdev, p50, p95, p99) ==
    IF IsError(stdev) THEN stdev
    ELSE IF IsError(p50) THEN p50
    ELSE IF IsError(p95) THEN p95
    ELSE IF IsError(p99) THEN p99
    ELSE [count |-> Len(values),
          mean |-> py_mean(values),
          median |-> py_median(values),
          stdev |-> stdev,
          min |-> RatOf(MinOf(values)),
          max |-> RatOf(MaxOf(values)),
          p50 |-> p50,
          p95 |-> p95,
          p99 |-> p99]

stats_of(values) ==
    StatsRecord(values, stdev_of(values), p50_of(values), p95_of(values), p99_of(values))

get_stats(d, metric_name) ==
    IF ~HasKey(d, metric_name) THEN NoMean
    ELSE IF Len(SeriesOf(d, metric_name)) = 0 THEN NoMean
    ELSE stats_of(ValuesOf(SeriesOf(d, metric_name)))

\* summary["metrics"]: one entry per series, in the order of self.metrics
SummaryMetrics(d) ==
    [i \in 1..Len(d) |-> [name |-> d[i].name, stats |-> get_stats(d, d[i].name)]]

\* get_summary raises when a get_stats raises
SummaryOf(run_id, now, entries) ==
    IF \E i \in 1..Len(entries) : IsError(entries[i].stats)
    THEN StatisticsError
    ELSE [run_id |-> run_id, timestamp |-> now, metrics |-> entries]

get_summary(d, run_id, now) == SummaryOf(run_id, now, SummaryMetrics(d))

(***************************************************************************)
(* MetricsCollector: the JSON text of json.dump and its reading by         *)
(* json.load.  A number is written as a literal of decimal digits: an int  *)
(* literal for an integral value, a float literal (exact, as repr promises)*)
(* otherwise.  An object is the sequence of its members in insertion order.*)
(***************************************************************************)
RECURSIVE Digits(_)
Digits(n) == IF n < 10 THEN <<n>> ELSE Append(Digits(n \div 10), n % 10)

RECURSIVE FromDigits(_)
FromDigits(ds) ==
    IF Len(ds) = 0 THEN 0
    ELSE FromDigits(SubSeq(ds, 1, Len(ds) - 1)) * 10 + ds[Len(ds)]

\* a number written with its fraction cut off
FracLit_truncated(x) ==
    [json |-> "int", neg |-> x.num < 0, num |-> Digits(Abs(x.num) \div x.den), den |-> Digits(1)]

\* the literal of a fraction
FracLit(x) ==
    [json |-> IF x.den = 1 THEN "int" ELSE "float",
     neg |-> x.num < 0, num |-> Digits(Abs(x.num)), den |-> Digits(x.den)]

ParseFrac(l) == Frac((IF l.neg THEN 0 - 1 ELSE 1) * FromDigits(l.num), FromDigits(l.den))

\* the literal of a statistic: a fraction or the square root of one
NumLit(x) ==
    IF "sqrt" \in DOMAIN x THEN [json |-> "float", sqrt |-> FracLit(x.sqrt)] ELSE FracLit(x)

ParseNum(l) == IF "sqrt" \in DOMAIN l THEN Sqrt(ParseFrac(l.sqrt)) ELSE ParseFrac(l)

\* the keys of the dict literal of get_stats, in its order
StatKeys == <<"count", "mean", "median", "stdev", "min", "max", "p50", "p95", "p99">>

\* a stats dict as a JSON object
StatLit(key, value) == IF key = "count" THEN FracLit(RatOf(value)) ELSE NumLit(value)
PresentKeys(stats) == SelectSeq(StatKeys, LAMBDA k : k \in DOMAIN stats)
DumpStatsMembers(stats, keys) ==
    [i \in 1..Len(keys) |-> [key |-> keys[i], value |-> StatLit(keys[i], stats[keys[i]])]]
json_dump_stats(stats) == DumpStatsMembers(stats, PresentKeys(stats))

\* a JSON object of statistics as a dict: a repeated key keeps its last value
ParseStat(key, l) == IF key = "count" THEN ParseFrac(l).num ELSE ParseNum(l)
json_load_stats(members) ==
    [k \in {members[i].key : i \in 1..Len(members)} |->
        ParseStat(k, members[CHOOSE i \in 1..Len(members) :
                                /\ members[i].key = k
                                /\ \A j \in (i + 1)..Len(members) : members[j].key # k].value)]

\* json.dump(summary, f)
json_dump_summary(summary) ==
    [kind |-> "summary_text",
     run_id |-> summary.run_id,
     timestamp |-> Digits(summary.timestamp),
     metrics |-> [i \in 1..Len(summary.metrics) |->
                    [key |-> summary.metrics[i].name,
                     value |-> json_dump_stats(summary.metrics[i].stats)]]]

\* json.load of a summary file
json_load_summary(text) ==
    [run_id |-> text.run_id,
     timestamp |-> FromDigits(text.timestamp),
     metrics |-> [i \in 1..Len(text.metrics) |->
                    [name |-> text.metrics[i].key,
                     stats |-> json_load_stats(text.metrics[i].value)]]]

\* json.dump(self.metrics, f): the raw samples of every series
SampleLit(sample) ==
    [value |-> FracLit(RatOf(sample.value)),
     timestamp |-> Digits(sample.timestamp),
     metadata |-> sample.metadata]
json_dump_metrics(d) ==
    [kind |-> "detailed_text",
     series |-> [i \in 1..Len(d) |->
                   [key |-> d[i].name,
                    value |-> [j \in 1..Len(d[i].samples) |-> SampleLit(d[i].samples[j])]]]]

(***************************************************************************)
(* MetricsCollector: save_to_file and compare_with_baseline.  The output   *)
(* directory is a function from file names to JSON texts.                  *)
(***************************************************************************)
\* `filename: Optional[str] = None`
NoFilename == << >>

\* f"metrics_{self.run_id}.json"
default_filename(run_id) ==
    <<"m","e","t","r","i","c","s","_">> \o run_id \o <<".","j","s","o","n">>

FilenameOf(filename, run_id) ==
    IF filename = NoFilename THEN default_filename(run_id) ELSE filename

\* datetime.now().strftime("%Y%m%d_%H%M%S")
RunId_a == <<"2","0","2","4","0","1","0","1","_","0","9","0","0","0","0">>
RunId_b == <<"2","0","2","4","0","1","0","2","_","0","9","0","0","0","0">>
RunIds == {RunId_a, RunId_b}

\* the two files that save_to_file() writes when it is given no filename
DefaultSavedNames == {default_filename(RunId_a), detailed_name(default_filename(RunId_a))}

\* open(path, 'w') and json.dump: the file is created or replaced
Write(dir, path, text) ==
    [f \in DOMAIN dir \cup {path} |-> IF f = path THEN text ELSE dir[f]]

\* `summary = self.get_summary()` and the second json.dump; an exception of get_summary
\* leaves save_to_file after the dump was written
WriteSummary(dir, path, summary) ==
    IF IsError(summary) THEN dir ELSE Write(dir, path, json_dump_summary(summary))

\* the output directory after save_to_file(filename), filename already defaulted
save_to_file(dir, d, run_id, now, filename) ==
    WriteSummary(Write(dir, detailed_name(filename), json_dump_metrics(d)),
                 filename, get_summary(d, run_id, now))

StartsWith(s, k) == Len(s) >= Len(k) /\ SubSeq(s, 1, Len(k)) = k

\* `metric_name.startswith("wer") or metric_name.endswith("latency_ms")`
CmpLowerIsBetter(name) == StartsWith(name, K_wer) \/ EndsWith(name, K_latency_ms)
\* `metric_name.startswith("pesq") or metric_name.endswith("accuracy")`
CmpHigherIsBetter(name) == StartsWith(name, K_pesq) \/ EndsWith(name, K_accuracy)

\* `((current_value - baseline_value) / baseline_value) * 100`, the baseline an integer
CmpChangePct(baseline_value, current_value) ==
    RatTimes(Frac(current_value.num - baseline_value * current_value.den,
                  baseline_value * current_value.den), 100)

\* the lower-is-better cutoff read as `>=`
CmpIsRegression_atCutoff(name, change_pct) ==
    IF CmpLowerIsBetter(name) THEN ~RatLT(change_pct, RatOf(20))
    ELSE IF CmpHigherIsBetter(name) THEN RatLT(change_pct, RatOf(0 - 5))
    ELSE FALSE
CmpIsRegression(name, change_pct) ==
    IF CmpLowerIsBetter(name) THEN RatGT(change_pct, RatOf(20))
    ELSE IF CmpHigherIsBetter(name) THEN RatLT(change_pct, RatOf(0 - 5))
    ELSE FALSE

\* the `elif abs(change_pct) > 5` branch
CmpIsImprovement(name, change_pct) ==
    /\ RatGT(RatAbs(change_pct), RatOf(5))
    /\ IF CmpLowerIsBetter(name) THEN RatLT(change_pct, RatZero)
       ELSE RatGT(change_pct, RatZero)

CmpEntry(name, baseline_value, current_value, change_pct) ==
    [metric |-> name, baseline |-> baseline_value, current |-> current_value,
     change_pct |-> change_pct]

\* the loop body with a plain `if abs(change_pct) > 5:` appending the improvement, in
\* place of the `elif` and of the tests of direction nested in it
CmpClassified_unsigned(cmp, name, baseline_value, current_value, change_pct) ==
    [cmp EXCEPT
       !.regressions =
          IF CmpIsRegression(name, change_pct)
          THEN Append(@, CmpEntry(name, baseline_value, current_value, change_pct)) ELSE @,
       !.improvements =
          IF RatGT(RatAbs(change_pct), RatOf(5))
          THEN Append(@, CmpEntry(name, baseline_value, current_value, change_pct)) ELSE @]
\* the body of the loop for a metric of both summaries with a non-zero baseline mean
CmpClassified(cmp, name, baseline_value, current_value, change_pct) ==
    IF CmpIsRegression(name, change_pct)
    THEN [cmp EXCEPT !.regressions =
             Append(@, CmpEntry(name, baseline_value, current_value, change_pct))]
    ELSE IF CmpIsImprovement(name, change_pct)
    THEN [cmp EXCEPT !.improvements =
             Append(@, CmpEntry(name, baseline_value, current_value, change_pct))]
    ELSE cmp

\* one iteration of `for metric_name in current["metrics"]`
CmpStep(cmp, entry, base_metrics) ==
    IF entry.name \notin DOMAIN base_metrics THEN cmp
    ELSE IF Get(base_metrics[entry.name], "mean", 0) = 0 THEN cmp
    ELSE CmpClassified(cmp, entry.name,
                       Get(base_metrics[entry.name], "mean", 0),
                       Get(entry.stats, "mean", RatZero),
                       CmpChangePct(Get(base_metrics[entry.name], "mean", 0),
                                    Get(entry.stats, "mean", RatZero)))

RECURSIVE CmpLoop(_, _, _)
CmpLoop(cmp, entries, base_metrics) ==
    IF entries = << >> THEN cmp
    ELSE CmpLoop(CmpStep(cmp, Head(entries), base_metrics), Tail(entries), base_metrics)

\* baseline.get("run_id", "unknown")
Unknown == <<"u","n","k","n","o","w","n">>

\* compare_with_baseline once the baseline is loaded and the summary computed
Comparison(baseline, current, run_id) ==
    IF IsError(current) THEN current
    ELSE CmpLoop([baseline_run_id |-> Get(baseline, "run_id", Unknown),
                  current_run_id |-> run_id,
                  regressions |-> << >>,
                  improvements |-> << >>],
                 current.metrics,
                 Get(baseline, "metrics", << >>))

\* json.load of a text that is no JSON
JSONDecodeError == [kind |-> "JSONDecodeError"]

compare_with_baseline(d, run_id, now, baseline) ==
    IF LoadRaises(baseline) THEN JSONDecodeError
    ELSE Comparison(baseline.doc, get_summary(d, run_id, now), run_id)

(***************************************************************************)
(* ConversationSimulator.  A turn of a script is a dict: a function whose  *)
(* domain holds "user" and the expectations the turn states.  A text is a  *)
(* sequence of characters.                                                 *)
(***************************************************************************)
\* str.lower on the characters the texts use
LowerOf(c) ==
    CASE c = "W" -> "w"
      [] c = "T" -> "t"
      [] c = "Y" -> "y"
      [] c = "O" -> "o"
      [] c = "U" -> "u"
      [] OTHER -> c
py_lower(text) == [i \in 1..Len(text) |-> LowerOf(text[i])]

\* turn["user"]: the path of an audio file, or the audio bytes themselves
P_hello_wav == [kind |-> "str", path |-> <<"h","e","l","l","o",".","w","a","v">>]
P_missing_wav == [kind |-> "str", path |-> <<"m","i","s","s","i","n","g",".","w","a","v">>]
AudioBytes == [kind |-> "bytes", path |-> << >>]
\* the audio files that exist
FixtureFiles == {P_hello_wav.path}

\* `isinstance(turn["user"], (str, Path))` and `not audio_path.exists()`
AudioMissing(turn) == turn.user.kind = "str" /\ turn.user.path \notin FixtureFiles

T_weather == <<"W","e","a","t","h","e","r">>
T_thank == <<"t","h","a","n","k">>
T_you == <<"y","o","u">>
\* what /api/chat may answer
T_sunny == <<"s","u","n","n","y"," ","w","e","a","t","h","e","r",","," ","t","h","a","n","k"," ","Y","O","U">>
T_thanks == <<"T","h","a","n","k","s">>
AssistantTexts == {T_sunny, T_thanks}
T_hello == <<"h","e","l","l","o">>
E_chat_failed == <<"C","h","a","t"," ","f","a","i","l","e","d",":"," ","5","0","0">>

\* the dict send_audio returns from its `except` clause
FailureResponse(error, total_ms) ==
    [error |-> error, success |-> FALSE, total_time_ms |-> total_ms]
\* the dict send_audio returns after both requests were answered with status 200
SuccessResponse(user_text, assistant_text, transcription_ms, chat_ms, total_ms) ==
    [user_text |-> user_text, assistant_text |-> assistant_text,
     transcription_time_ms |-> transcription_ms, chat_time_ms |-> chat_ms,
     total_time_ms |-> total_ms, success |-> TRUE]
FailureResponses == {FailureResponse(E_chat_failed, 30)}
SuccessResponses == {SuccessResponse(T_hello, a, 10, 20, 30) : a \in AssistantTexts}

\* `if "expect_keyword" in turn:` and the test under it
KeywordFound(turn, response) ==
    "expect_keyword" \in DOMAIN turn
        => IsSubstring(py_lower(turn.expect_keyword), py_lower(response.assistant_text))
\* `if "expect_keywords" in turn:` and `len(found) < len(keywords)`
KeywordsFound(turn, response) ==
    "expect_keywords" \in DOMAIN turn
        => ~(Cardinality({k \in 1..Len(turn.expect_keywords) :
                            IsSubstring(py_lower(turn.expect_keywords[k]),
                                        py_lower(response.assistant_text))})
               < Len(turn.expect_keywords))
validation_passed(turn, response) == KeywordFound(turn, response) /\ KeywordsFound(turn, response)

\* the dict of lines 155-163, `i` counted from 0 by enumerate
turn_metrics(i, turn, response) ==
    [turn |-> i + 1,
     user_text |-> response.user_text,
     assistant_text |-> response.assistant_text,
     transcription_time_ms |-> response.transcription_time_ms,
     chat_time_ms |-> response.chat_time_ms,
     total_time_ms |-> response.total_time_ms,
     validation_passed |-> validation_passed(turn, response)]

\* a failed turn that appends nothing before its `continue`
FailedTurn_dropped(res, response) == res
\* `results.append(response)` of a failed turn
FailedTurn(res, response) == Append(res, response)

(***************************************************************************)
(* State.                                                                  *)
(***************************************************************************)
VARIABLES
    pc,                \* position of main / detect_regressions
    current_dir,       \* names of the files of the current directory
    baseline_dir,      \* names of the files of the baseline directory
    files,             \* current_files still to be visited by the file loop
    cur_items,         \* metrics of the current file still to be visited
    baseline_metrics,  \* baseline_metrics['metrics'] of the file being compared; a local
                       \* of the iteration, empty between two files
    regressions,       \* the buckets of detect_regressions
    report,            \* the report written by save_report
    exit_status,       \* <<>> while running, <<n>> once the process has exited with n
    handled,           \* history: the files visited so far and what was done with each
    last,              \* history: the latest step of the file loop or the metric loop
    cpc,               \* position of a single call of check_regression
    call,              \* arguments of that call
    ret,               \* its return value
    call_regs,         \* empty buckets after `if result: ...append(result)` of that call
    tpc,               \* position of a single call of get_metric_type on call.metric_name
    ctype,             \* its return value
    bpc,               \* position of a pair of iterations of the metric loop
    body_in,           \* the metric name and the two pairs of stats records they compare
    body_out,          \* what each of the two iterations did
    metrics,           \* self.metrics of a MetricsCollector
    run_id,            \* its run_id
    now,               \* the clock read by time.time() and datetime.now()
    disk,              \* the files of its output directory and their texts
    cret,              \* history: the latest call of the collector and what it returned
    r_metrics,         \* self.metrics of a collector shared by threads: name and list object
    r_heap,            \* the list objects: r_heap[ref] is the content of the list `ref`
    r_prod,            \* each producer thread: its call of record and its position in it
    spc,               \* position of the user of a ConversationSimulator
    session,           \* whether its self.session is set
    script,            \* the script given to run_conversation
    turn_i,            \* `i` of the turn loop: the turns already visited
    results,           \* `results` of run_conversation
    sim_metrics,       \* self.metrics of the simulator
    conversation_history, \* self.conversation_history
    sent               \* history: the turn and the response of each call of send_audio

vars == <<pc, current_dir, baseline_dir, files, cur_items, baseline_metrics, regressions,
          report, exit_status, handled, last, cpc, call, ret, call_regs, tpc, ctype,
          bpc, body_in, body_out, metrics, run_id, now, disk, cret,
          r_metrics, r_heap, r_prod,
          spc, session, script, turn_i, results, sim_metrics, conversation_history, sent>>

scanVars == <<pc, current_dir, baseline_dir, files, cur_items, baseline_metrics,
              regressions, report, exit_status, handled, last>>
callVars == <<cpc, call, ret, call_regs, tpc, ctype>>
bodyVars == <<bpc, body_in, body_out>>
collVars == <<metrics, run_id, now, disk, cret>>
raceVars == <<r_metrics, r_heap, r_prod>>
simVars == <<spc, session, script, turn_i, results, sim_metrics, conversation_history, sent>>
extVars == <<bodyVars, collVars, raceVars, simVars>>

NoStep ==
    [op |-> "none", name |-> << >>, baseline_value |-> 0, current_value |-> 0, result |-> None]
NoCall == [metric_name |-> << >>, baseline_value |-> 0, current_value |-> 0]

\* the values of the variables of a process that a specification does not run
ScanIdle ==
    /\ pc = "idle"
    /\ current_dir = {}
    /\ baseline_dir = {}
    /\ files = << >>
    /\ cur_items = << >>
    /\ baseline_metrics = << >>
    /\ regressions = EmptyBuckets
    /\ report = NoReport
    /\ exit_status = << >>
    /\ handled = << >>
    /\ last = NoStep
CallIdle ==
    /\ cpc = "idle"
    /\ call = NoCall
    /\ ret = None
    /\ call_regs = EmptyBuckets
    /\ tpc = "idle"
    /\ ctype = NoType
BodyIdle ==
    /\ bpc = "idle"
    /\ body_in = << >>
    /\ body_out = << >>
NoRet == [op |-> "none", arg |-> << >>, value |-> 0, result |-> None]
CollIdle ==
    /\ metrics = << >>
    /\ run_id = << >>
    /\ now = 0
    /\ disk = << >>
    /\ cret = NoRet
RaceIdle ==
    /\ r_metrics = << >>
    /\ r_heap = << >>
    /\ r_prod = << >>
SimIdle ==
    /\ spc = "idle"
    /\ session = FALSE
    /\ script = << >>
    /\ turn_i = 0
    /\ results = << >>
    /\ sim_metrics = << >>
    /\ conversation_history = << >>
    /\ sent = << >>
ExtIdle ==
    /\ BodyIdle
    /\ CollIdle
    /\ RaceIdle
    /\ SimIdle

(***************************************************************************)
(* The process: main.                                                      *)
(***************************************************************************)
Init ==
    /\ pc = "start"
    /\ current_dir \in SUBSET CurrentFileNames
    /\ baseline_dir \in SUBSET BaselineFileNames
    /\ files = << >>
    /\ cur_items = << >>
    /\ baseline_metrics = << >>
    /\ regressions = EmptyBuckets
    /\ report = NoReport
    /\ exit_status = << >>
    /\ handled = << >>
    /\ last = NoStep
    /\ cpc = "idle"
    /\ call = NoCall
    /\ ret = None
    /\ call_regs = EmptyBuckets
    /\ tpc = "idle"
    /\ ctype = NoType
    /\ ExtIdle

\* every order in which glob may list the set S
Orders(S) ==
    {o \in [1..Cardinality(S) -> S] : \A i, j \in 1..Cardinality(S) : o[i] = o[j] => i = j}

\* main up to the file loop: RegressionDetector(...), the buckets, the glob
Glob ==
    /\ pc = "start"
    /\ \E o \in Orders({f \in current_dir : MatchesGlob(f)}) : files' = o
    /\ regressions' = EmptyBuckets
    /\ pc' = "file_loop"
    /\ UNCHANGED <<current_dir, baseline_dir, cur_items, baseline_metrics, report,
                   exit_status, handled, last>>
    /\ UNCHANGED <<callVars, extVars>>

\* a current file with no baseline file
SkipFile ==
    /\ pc = "file_loop"
    /\ files # << >>
    /\ Head(files) \notin baseline_dir
    /\ files' = AfterSkippedFile(files)
    /\ handled' = Append(handled, [file |-> Head(files), outcome |-> "skipped"])
    /\ last' = [op |-> "skip_file", name |-> Head(files), baseline_value |-> 0,
                current_value |-> 0, result |-> None]
    /\ UNCHANGED <<pc, current_dir, baseline_dir, cur_items, baseline_metrics, regressions,
                   report, exit_status>>
    /\ UNCHANGED <<callVars, extVars>>

\* a current file with a baseline file: both are loaded
LoadFile ==
    /\ pc = "file_loop"
    /\ files # << >>
    /\ Head(files) \in baseline_dir
    /\ \E cur \in CurrentContentsOf(Head(files)), base \in BaselineContentsOf(Head(files)) :
          /\ ~LoadRaises(cur)
          /\ ~LoadRaises(base)
          /\ cur_items' = CurrentMetricsOf(cur)
          /\ baseline_metrics' =
                IF CurrentMetricsOf(cur) = << >> THEN << >> ELSE BaselineMetricsOf(base)
          /\ pc' = IF CurrentMetricsOf(cur) = << >> THEN "file_loop" ELSE "metric_loop"
    /\ files' = Tail(files)
    /\ handled' = Append(handled, [file |-> Head(files), outcome |-> "compared"])
    /\ last' = [op |-> "load", name |-> Head(files), baseline_value |-> 0,
                current_value |-> 0, result |-> None]
    /\ UNCHANGED <<current_dir, baseline_dir, regressions, report, exit_status>>
    /\ UNCHANGED <<callVars, extVars>>

\* json.load raises in load_metrics: nothing catches it and the interpreter exits with 1
LoadFails ==
    /\ pc = "file_loop"
    /\ files # << >>
    /\ Head(files) \in baseline_dir
    /\ \E cur \in CurrentContentsOf(Head(files)), base \in BaselineContentsOf(Head(files)) :
          LoadRaises(cur) \/ LoadRaises(base)
    /\ pc' = "crashed"
    /\ exit_status' = <<1>>
    /\ handled' = Append(handled, [file |-> Head(files), outcome |-> "failed"])
    /\ last' = [op |-> "load_failed", name |-> Head(files), baseline_value |-> 0,
                current_value |-> 0, result |-> None]
    /\ UNCHANGED <<current_dir, baseline_dir, files, cur_items, baseline_metrics,
                   regressions, report>>
    /\ UNCHANGED <<callVars, extVars>>

\* one metric of the current file
CompareMetric ==
    /\ pc = "metric_loop"
    /\ \E out \in {compare_metric(Head(cur_items), baseline_metrics, regressions)} :
          /\ last' = [op |-> out.op, name |-> Head(cur_items).name,
                      baseline_value |-> out.baseline_value,
                      current_value |-> out.current_value, result |-> out.result]
          /\ IF out.result.kind = "ZeroDivisionError"
             THEN /\ pc' = "crashed"
                  /\ exit_status' = <<1>>
                  /\ UNCHANGED <<regressions, cur_items, baseline_metrics>>
             ELSE /\ regressions' = out.regressions
                  /\ cur_items' = IF out.op = "skip_metric"
                                  THEN AfterSkippedMetric(cur_items)
                                  ELSE Tail(cur_items)
                  /\ pc' = IF cur_items' = << >> THEN "file_loop" ELSE "metric_loop"
                  /\ baseline_metrics' =
                        IF cur_items' = << >> THEN << >> ELSE baseline_metrics
                  /\ UNCHANGED exit_status
    /\ UNCHANGED <<current_dir, baseline_dir, files, report, handled>>
    /\ UNCHANGED <<callVars, extVars>>

\* detect_regressions returns; print_report; save_report
SaveReport ==
    /\ pc = "file_loop"
    /\ files = << >>
    /\ report' = save_report(regressions)
    /\ current_dir' = current_dir \cup {F_regression_report}
    /\ pc' = "exit"
    /\ UNCHANGED <<baseline_dir, files, cur_items, baseline_metrics, regressions,
                   exit_status, handled, last>>
    /\ UNCHANGED <<callVars, extVars>>

\* sys.exit(1) or sys.exit(0)
Exit ==
    /\ pc = "exit"
    /\ exit_status' = IF has_critical_regressions(regressions) THEN <<1>> ELSE <<0>>
    /\ pc' = "done"
    /\ UNCHANGED <<current_dir, baseline_dir, files, cur_items, baseline_metrics,
                   regressions, report, handled, last>>
    /\ UNCHANGED <<callVars, extVars>>

Next ==
    \/ Glob
    \/ SkipFile
    \/ LoadFile
    \/ LoadFails
    \/ CompareMetric
    \/ SaveReport
    \/ Exit

Spec == Init /\ [][Next]_vars

(***************************************************************************)
(* The same process on directories written by save_to_file, raw-sample     *)
(* dumps included; the current directory may also hold the two files of a  *)
(* save_to_file() without filename.                                        *)
(***************************************************************************)
InitSaved ==
    /\ pc = "start"
    /\ current_dir \in SavedDirs \cup {d \cup DefaultSavedNames : d \in SavedDirs}
    /\ baseline_dir \in SavedDirs
    /\ files = << >>
    /\ cur_items = << >>
    /\ baseline_metrics = << >>
    /\ regressions = EmptyBuckets
    /\ report = NoReport
    /\ exit_status = << >>
    /\ handled = << >>
    /\ last = NoStep
    /\ cpc = "idle"
    /\ call = NoCall
    /\ ret = None
    /\ call_regs = EmptyBuckets
    /\ tpc = "idle"
    /\ ctype = NoType
    /\ ExtIdle

SpecSaved == InitSaved /\ [][Next]_vars

(***************************************************************************)
(* One call of check_regression from the metric loop, on every pair of     *)
(* means of the grid.                                                      *)
(***************************************************************************)
CheckNames ==
    {N_stt_wer_clean, N_tts_latency_ms, N_false_interruption_rate, N_backchannel_accuracy,
     N_pesq_score, N_task_success_rate, N_answer_accuracy, N_pesq_latency_ms,
     N_custom_thing_unrelated}

Vals == (0 - MaxVal)..MaxVal

InitCheck ==
    /\ cpc = "call"
    /\ call \in [metric_name : CheckNames, baseline_value : Vals, current_value : Vals]
    /\ ret = None
    /\ call_regs = EmptyBuckets
    /\ tpc = "call"
    /\ ctype = NoType
    /\ pc = "idle"
    /\ current_dir = {}
    /\ baseline_dir = {}
    /\ files = << >>
    /\ cur_items = << >>
    /\ baseline_metrics = << >>
    /\ regressions = EmptyBuckets
    /\ report = NoReport
    /\ exit_status = << >>
    /\ handled = << >>
    /\ last = NoStep
    /\ ExtIdle

\* result = self.check_regression(...); if result: regressions[...].append(result)
CheckCall ==
    /\ cpc = "call"
    /\ \E result \in {check_regression(call.metric_name, call.baseline_value,
                                        call.current_value)} :
          /\ ret' = result
          /\ call_regs' = add_result(result, call_regs)
          /\ cpc' = IF result.kind = "ZeroDivisionError" THEN "raised" ELSE "returned"
    /\ UNCHANGED <<call, tpc, ctype>>
    /\ UNCHANGED <<scanVars, extVars>>

\* one call of get_metric_type on the name of the call
TypeCall ==
    /\ tpc = "call"
    /\ ctype' = get_metric_type(call.metric_name)
    /\ tpc' = "returned"
    /\ UNCHANGED <<cpc, call, ret, call_regs>>
    /\ UNCHANGED <<scanVars, extVars>>

NextCheck ==
    \/ CheckCall
    \/ TypeCall

SpecCheck == InitCheck /\ [][NextCheck]_vars

(***************************************************************************)
(* Two iterations of the metric loop on the same metric name and the same  *)
(* means, with the other statistics of the two stats records chosen freely *)
(* in each.                                                                *)
(***************************************************************************)
\* statistics of get_stats other than the mean
OtherStatKeys == {"median", "p95"}
OtherStats == [OtherStatKeys -> {0, 40}]

\* the mean of a stats record, or none: << >> for a record with no key 'mean'
CurrentMeans == {<< >>, <<20>>, <<30>>}
BaselineMeans == {<< >>, <<0>>, <<22>>}

\* a stats record of a snapshot file
StatsWith(mean, other) ==
    IF mean = << >> THEN other
    ELSE [k \in OtherStatKeys \cup {"mean"} |-> IF k = "mean" THEN mean[1] ELSE other[k]]

InitBody ==
    /\ bpc = "iterate"
    /\ body_in \in [metric_name : PipelineNames,
                    current_mean : CurrentMeans,
                    baseline_mean : BaselineMeans,
                    current_other : [1..2 -> OtherStats],
                    baseline_other : [1..2 -> OtherStats]]
    /\ body_out = << >>
    /\ ScanIdle
    /\ CallIdle
    /\ CollIdle
    /\ RaceIdle
    /\ SimIdle

\* the body of the metric loop, once on each pair of stats records
IterateBody ==
    /\ bpc = "iterate"
    /\ body_out' =
          [r \in 1..2 |->
              compare_metric(
                  [name |-> body_in.metric_name,
                   stats |-> StatsWith(body_in.current_mean, body_in.current_other[r])],
                  body_in.metric_name :>
                      StatsWith(body_in.baseline_mean, body_in.baseline_other[r]),
                  EmptyBuckets)]
    /\ bpc' = "done"
    /\ UNCHANGED body_in
    /\ UNCHANGED <<scanVars, callVars, collVars, raceVars, simVars>>

NextBody == IterateBody

SpecBody == InitBody /\ [][NextBody]_vars

(***************************************************************************)
(* One MetricsCollector and the calls of its methods, in any order.        *)
(***************************************************************************)
\* the most samples recorded in a run of the model
MaxSamples == 2

CollectorNames == {N_tts_latency_ms, N_backchannel_accuracy}
\* a name that no test records
UnrecordedName == N_pesq_score
SampleVals == {0 - 2, 3}

\* the filename arguments of save_to_file
SaveFilenames == {NoFilename, F_stt_latency_metrics}

\* what json.load may find at baseline_path
CmpBaselineMetrics ==
    {N_tts_latency_ms :> Stats(2),
     N_backchannel_accuracy :> Stats(2),
     (N_tts_latency_ms :> Stats(2)) @@ (N_backchannel_accuracy :> Stats(0))}
BaselineDocs ==
    {<< >>} \cup {[run_id |-> RunId_b, metrics |-> m] : m \in CmpBaselineMetrics}
CompareBaselines == {Malformed} \cup {[kind |-> "summary", doc |-> d] : d \in BaselineDocs}

\* MetricsCollector(output_dir)
InitCollector ==
    /\ metrics = << >>
    /\ run_id \in RunIds
    /\ now = 0
    /\ disk = << >>
    /\ cret = NoRet
    /\ ScanIdle
    /\ CallIdle
    /\ BodyIdle
    /\ RaceIdle
    /\ SimIdle

Record ==
    /\ now < MaxSamples
    /\ \E metric_name \in CollectorNames, value \in SampleVals :
          /\ metrics' = record(metrics, metric_name, value, now)
          /\ cret' = [op |-> "record", arg |-> metric_name, value |-> value, result |-> None]
    /\ now' = now + 1
    /\ UNCHANGED <<run_id, disk>>
    /\ UNCHANGED <<scanVars, callVars, bodyVars, raceVars, simVars>>

GetStats ==
    /\ \E metric_name \in CollectorNames \cup {UnrecordedName} :
          cret' = [op |-> "get_stats", arg |-> metric_name, value |-> 0,
                   result |-> get_stats(metrics, metric_name)]
    /\ UNCHANGED <<metrics, run_id, now, disk>>
    /\ UNCHANGED <<scanVars, callVars, bodyVars, raceVars, simVars>>

GetSummary ==
    /\ cret' = [op |-> "get_summary", arg |-> << >>, value |-> 0,
                result |-> get_summary(metrics, run_id, now)]
    /\ UNCHANGED <<metrics, run_id, now, disk>>
    /\ UNCHANGED <<scanVars, callVars, bodyVars, raceVars, simVars>>

SaveToFile ==
    /\ \E filename \in SaveFilenames :
          /\ disk' = save_to_file(disk, metrics, run_id, now, FilenameOf(filename, run_id))
          /\ cret' = [op |-> "save_to_file", arg |-> FilenameOf(filename, run_id),
                      value |-> 0,
                      result |-> IF IsError(get_summary(metrics, run_id, now))
                                 THEN StatisticsError ELSE None]
    /\ UNCHANGED <<metrics, run_id, now>>
    /\ UNCHANGED <<scanVars, callVars, bodyVars, raceVars, simVars>>

CompareWithBaseline ==
    /\ \E baseline \in CompareBaselines :
          cret' = [op |-> "compare_with_baseline", arg |-> << >>, value |-> 0,
                   result |-> compare_with_baseline(metrics, run_id, now, baseline)]
    /\ UNCHANGED <<metrics, run_id, now, disk>>
    /\ UNCHANGED <<scanVars, callVars, bodyVars, raceVars, simVars>>

NextCollector ==
    \/ Record
    \/ GetStats
    \/ GetSummary
    \/ SaveToFile
    \/ CompareWithBaseline

SpecCollector == InitCollector /\ [][NextCollector]_vars

(***************************************************************************)
(* compare_with_baseline on a collector that holds one or two recorded     *)
(* series, against baselines of every family of names and sign of mean.    *)
(***************************************************************************)
\* a name of each family of lines 146-149, one of both and one of neither
CmpNames ==
    {N_wer_clean, N_tts_latency_ms, N_pesq_score, N_backchannel_accuracy,
     N_pesq_latency_ms, N_stt_wer_clean}
\* the values recorded first: around the baseline mean 20, the cutoffs 5 and 20 percent
CmpCurrentVals == {18, 19, 20, 21, 22, 24, 25}
\* the name and value of a second call of record
CmpSecondNames == {N_tts_latency_ms, N_pesq_score}
CmpSecondVals == {18, 25}
\* self.metrics after one call of record, after two
CmpCollectedOnce ==
    {record(<< >>, name, value, 0) : name \in CmpNames, value \in CmpCurrentVals}
CmpCollected ==
    CmpCollectedOnce \cup
    {record(d, name, value, 1) :
        d \in CmpCollectedOnce, name \in CmpSecondNames, value \in CmpSecondVals}
\* the means of a baseline summary
CmpBaselineVals == {0 - 20, 0, 20}
\* baseline["metrics"]: every name with one mean, one name only, a record without "mean"
GridBaselineMetrics ==
    {[name \in CmpNames |-> Stats(b)] : b \in CmpBaselineVals}
    \cup {N_tts_latency_ms :> Stats(20),
          (N_tts_latency_ms :> NoMean) @@ (N_pesq_score :> Stats(20))}
GridBaselines ==
    {Malformed} \cup
    {[kind |-> "summary", doc |-> d] :
        d \in {<< >>} \cup {[run_id |-> RunId_b, metrics |-> m] : m \in GridBaselineMetrics}}

InitCompare ==
    /\ metrics \in CmpCollected
    /\ run_id = RunId_a
    /\ now = 2
    /\ disk = << >>
    /\ cret = NoRet
    /\ ScanIdle
    /\ CallIdle
    /\ BodyIdle
    /\ RaceIdle
    /\ SimIdle

\* compare_with_baseline(baseline_path), the file at baseline_path holding `baseline`
CompareGrid ==
    /\ \E baseline \in GridBaselines :
          cret' = [op |-> "compare_with_baseline", arg |-> baseline, value |-> 0,
                   result |-> compare_with_baseline(metrics, run_id, now, baseline)]
    /\ UNCHANGED <<metrics, run_id, now, disk>>
    /\ UNCHANGED <<scanVars, callVars, bodyVars, raceVars, simVars>>

NextCompare == CompareGrid
SpecCompare == InitCompare /\ [][NextCompare]_vars

(***************************************************************************)
(* get_stats on a collector that holds one series of up to MaxCount        *)
(* samples, recorded one after the other.                                  *)
(***************************************************************************)
\* the longest series
MaxCount == 101

\* the value of the i-th sample recorded, for each of the shapes of series
Shapes == 1..6
ShapeValue(shape, i) ==
    CASE shape = 1 -> 5
      [] shape = 2 -> i % 7
      [] shape = 3 -> ((i * 37) % 101) - 50
      [] shape = 4 -> 0 - i
      [] shape = 5 -> (i * i) % 13
      [] shape = 6 -> IF i % 10 = 0 THEN 100 ELSE 0

\* the series after `count` calls of record
RecordedSeries(shape, count) == [i \in 1..count |-> Sample(ShapeValue(shape, i), i - 1)]

InitStats ==
    /\ \E shape \in Shapes, count \in 1..MaxCount :
          /\ metrics = <<[name |-> N_tts_latency_ms,
                          samples |-> RecordedSeries(shape, count)]>>
          /\ now = count
    /\ run_id = RunId_a
    /\ disk = << >>
    /\ cret = NoRet
    /\ ScanIdle
    /\ CallIdle
    /\ BodyIdle
    /\ RaceIdle
    /\ SimIdle

NextStats == GetStats

SpecStats == InitStats /\ [][NextStats]_vars

(***************************************************************************)
(* Producer threads that call record on one collector.  The interpreter    *)
(* may switch threads between any two of the steps of record: the          *)
(* membership test, the assignment of a new list, the lookup of the list,  *)
(* and the append to the list that was looked up.                          *)
(***************************************************************************)
Producers == {1, 2}
RaceNames == {N_tts_latency_ms, N_backchannel_accuracy}

\* the collector before the calls: empty, or with one sample recorded
RaceStarts ==
    {[dict |-> << >>, heap |-> << >>],
     [dict |-> <<[name |-> N_tts_latency_ms, ref |-> 1]>>, heap |-> <<(<<Sample(0, 0)>>)>>]}

\* producer p records the value p
InitRace ==
    /\ \E start \in RaceStarts :
          /\ r_metrics = start.dict
          /\ r_heap = start.heap
    /\ r_prod \in [Producers -> [pc : {"test"}, metric_name : RaceNames, ref : {0}]]
    /\ ScanIdle
    /\ CallIdle
    /\ BodyIdle
    /\ CollIdle
    /\ SimIdle

\* `self.metrics[metric_name] = []` on the dict as it is now
StoreNewList(d, name, ref) ==
    IF HasKey(d, name)
    THEN [d EXCEPT ![IndexOf(d, name)].ref = ref]
    ELSE Append(d, [name |-> name, ref |-> ref])

\* `if metric_name not in self.metrics:`
RecTest(p) ==
    /\ r_prod[p].pc = "test"
    /\ r_prod' = [r_prod EXCEPT ![p].pc = IF HasKey(r_metrics, r_prod[p].metric_name)
                                          THEN "lookup" ELSE "create"]
    /\ UNCHANGED <<r_metrics, r_heap>>
    /\ UNCHANGED <<scanVars, callVars, bodyVars, collVars, simVars>>

\* `self.metrics[metric_name] = []`
RecCreate(p) ==
    /\ r_prod[p].pc = "create"
    /\ r_heap' = Append(r_heap, << >>)
    /\ r_metrics' = StoreNewList(r_metrics, r_prod[p].metric_name, Len(r_heap) + 1)
    /\ r_prod' = [r_prod EXCEPT ![p].pc = "lookup"]
    /\ UNCHANGED <<scanVars, callVars, bodyVars, collVars, simVars>>

\* `self.metrics[metric_name]`: the list object the append will be called on
RecLookup(p) ==
    /\ r_prod[p].pc = "lookup"
    /\ r_prod' = [r_prod EXCEPT
                     ![p].ref = r_metrics[IndexOf(r_metrics, r_prod[p].metric_name)].ref,
                     ![p].pc = "append"]
    /\ UNCHANGED <<r_metrics, r_heap>>
    /\ UNCHANGED <<scanVars, callVars, bodyVars, collVars, simVars>>

\* `.append({...})`, and the return of record
RecAppend(p) ==
    /\ r_prod[p].pc = "append"
    /\ r_heap' = [r_heap EXCEPT ![r_prod[p].ref] = Append(@, Sample(p, 0))]
    /\ r_prod' = [r_prod EXCEPT ![p].pc = "returned"]
    /\ UNCHANGED r_metrics
    /\ UNCHANGED <<scanVars, callVars, bodyVars, collVars, simVars>>

NextRace ==
    \E p \in Producers :
        \/ RecTest(p)
        \/ RecCreate(p)
        \/ RecLookup(p)
        \/ RecAppend(p)

SpecRace == InitRace /\ [][NextRace]_vars

(***************************************************************************)
(* A ConversationSimulator and one call of run_conversation, a step of it  *)
(* being one turn of the loop.                                             *)
(***************************************************************************)
\* the longest script
MaxTurns == 2

\* the expectations a turn states
Expectations ==
    {[k \in {"expect_keyword"} |-> T_weather],
     [k \in {"expect_keywords"} |-> <<T_thank, T_you>>],
     [k \in {"expect_keywords"} |-> << >>]}
Turns ==
    {[k \in {"user"} |-> user] @@ e :
        user \in {P_hello_wav, P_missing_wav, AudioBytes}, e \in Expectations}
Scripts == UNION {[1..n -> Turns] : n \in 0..MaxTurns}

\* ConversationSimulator(api_base_url)
InitSim ==
    /\ spc = "constructed"
    /\ session = FALSE
    /\ script = << >>
    /\ turn_i = 0
    /\ results = << >>
    /\ sim_metrics = << >>
    /\ conversation_history = << >>
    /\ sent = << >>
    /\ ScanIdle
    /\ CallIdle
    /\ BodyIdle
    /\ CollIdle
    /\ RaceIdle

\* __aenter__
Enter ==
    /\ spc = "constructed"
    /\ ~session
    /\ session' = TRUE
    /\ UNCHANGED <<spc, script, turn_i, results, sim_metrics, conversation_history, sent>>
    /\ UNCHANGED <<scanVars, callVars, bodyVars, collVars, raceVars>>

\* run_conversation(script) up to its loop
RunConversation ==
    /\ spc = "constructed"
    /\ \E sc \in Scripts : script' = sc
    /\ results' = << >>
    /\ turn_i' = 0
    /\ spc' = "turn_loop"
    /\ UNCHANGED <<session, sim_metrics, conversation_history, sent>>
    /\ UNCHANGED <<scanVars, callVars, bodyVars, collVars, raceVars>>

\* a turn whose audio file does not exist: the warning and `continue`
TurnSkipped ==
    /\ spc = "turn_loop"
    /\ turn_i < Len(script)
    /\ AudioMissing(script[turn_i + 1])
    /\ turn_i' = turn_i + 1
    /\ UNCHANGED <<spc, session, script, results, sim_metrics, conversation_history, sent>>
    /\ UNCHANGED <<scanVars, callVars, bodyVars, collVars, raceVars>>

\* send_audio without a session raises RuntimeError, which run_conversation lets through
TurnRaises ==
    /\ spc = "turn_loop"
    /\ turn_i < Len(script)
    /\ ~AudioMissing(script[turn_i + 1])
    /\ ~session
    /\ spc' = "raised"
    /\ UNCHANGED <<session, script, turn_i, results, sim_metrics, conversation_history, sent>>
    /\ UNCHANGED <<scanVars, callVars, bodyVars, collVars, raceVars>>

\* a turn whose request failed: send_audio returned from its `except` clause
TurnFailed ==
    /\ spc = "turn_loop"
    /\ turn_i < Len(script)
    /\ ~AudioMissing(script[turn_i + 1])
    /\ session
    /\ \E response \in FailureResponses :
          /\ results' = FailedTurn(results, response)
          /\ sent' = Append(sent, [turn |-> turn_i + 1, response |-> response])
    /\ turn_i' = turn_i + 1
    /\ UNCHANGED <<spc, session, script, sim_metrics, conversation_history>>
    /\ UNCHANGED <<scanVars, callVars, bodyVars, collVars, raceVars>>

\* a turn that was answered: validation, the metrics of the turn, the history
TurnAnswered ==
    /\ spc = "turn_loop"
    /\ turn_i < Len(script)
    /\ ~AudioMissing(script[turn_i + 1])
    /\ session
    /\ \E response \in SuccessResponses :
          /\ results' = Append(results, turn_metrics(turn_i, script[turn_i + 1], response))
          /\ sim_metrics' =
                Append(sim_metrics, turn_metrics(turn_i, script[turn_i + 1], response))
          /\ conversation_history' =
                Append(conversation_history,
                       [user |-> response.user_text, assistant |-> response.assistant_text])
          /\ sent' = Append(sent, [turn |-> turn_i + 1, response |-> response])
    /\ turn_i' = turn_i + 1
    /\ UNCHANGED <<spc, session, script>>
    /\ UNCHANGED <<scanVars, callVars, bodyVars, collVars, raceVars>>

\* `return results`
Return ==
    /\ spc = "turn_loop"
    /\ turn_i = Len(script)
    /\ spc' = "returned"
    /\ UNCHANGED <<session, script, turn_i, results, sim_metrics, conversation_history, sent>>
    /\ UNCHANGED <<scanVars, callVars, bodyVars, collVars, raceVars>>

NextSim ==
    \/ Enter
    \/ RunConversation
    \/ TurnSkipped
    \/ TurnRaises
    \/ TurnFailed
    \/ TurnAnswered
    \/ Return
SpecSim == InitSim /\ [][NextSim]_vars

(***************************************************************************)
(* Properties of check_regression, checked under SpecCheck.                *)
(*                                                                         *)
(* With b = call.baseline_value # 0 and c = call.current_value, the change *)
(* fraction x is the rational with c = b * (1 + x).  The properties state  *)
(* comparisons of x with a threshold t = t.num / t.den by cross            *)
(* multiplication on integers.                                             *)
(***************************************************************************)
LowerTypes == {K_wer, K_latency_ms, K_false_interruption_rate}
HigherTypes == {K_accuracy, K_pesq, K_success_rate}

CallType == get_metric_type(call.metric_name)
IsResult(r) == r.kind = "RegressionResult"

\* x > t, x < t, x = t for the change fraction x of the call
XGreater(t) ==
    IF call.baseline_value > 0
    THEN (call.current_value - call.baseline_value) * t.den > t.num * call.baseline_value
    ELSE (call.current_value - call.baseline_value) * t.den < t.num * call.baseline_value
XLess(t) ==
    IF call.baseline_value > 0
    THEN (call.current_value - call.baseline_value) * t.den < t.num * call.baseline_value
    ELSE (call.current_value - call.baseline_value) * t.den > t.num * call.baseline_value
XEquals(t) ==
    (call.current_value - call.baseline_value) * t.den = t.num * call.baseline_value

\* e = (x - t) * 100
IsExcess(e, t) ==
    e.num * call.baseline_value * t.den =
        e.den * 100 * ((call.current_value - call.baseline_value) * t.den
                          - t.num * call.baseline_value)

\* e = |x - t| * 100
IsAbsExcess(e, t) ==
    /\ e.num >= 0
    /\ e.num * Abs(call.baseline_value) * t.den =
          e.den * 100 * Abs((call.current_value - call.baseline_value) * t.den
                               - t.num * call.baseline_value)

\* x is beyond the threshold t in the unfavourable direction of the call's type
Beyond(t) == IF CallType \in LowerTypes THEN XGreater(t) ELSE XLess(t)

\* C2: for a lower-is-better type and a baseline > 0, a change fraction x above the
\* type's critical threshold gives severity critical and
\* threshold_exceeded = (x - critical) * 100.
C2_LowerCritical ==
    (/\ cpc = "returned"
     /\ CallType \in LowerTypes
     /\ call.baseline_value > 0
     /\ XGreater(ThresholdsOf(CallType).critical))
    => /\ IsResult(ret)
       /\ ret.severity = "critical"
       /\ IsExcess(ret.threshold_exceeded, ThresholdsOf(CallType).critical)

\* wer from 20 to 28: +40 %, 20 points above the critical threshold of 20 %
C2_Witness ==
    /\ cpc = "returned"
    /\ call = [metric_name |-> N_stt_wer_clean, baseline_value |-> 20, current_value |-> 28]
    /\ IsResult(ret)
    /\ ret.severity = "critical"
    /\ ret.threshold_exceeded = Frac(20, 1)

\* C3: for a higher-is-better type and a nonzero baseline, a change fraction x below
\* (more negative than) the type's critical threshold gives severity critical.
C3_HigherCritical ==
    (/\ cpc = "returned"
     /\ CallType \in HigherTypes
     /\ call.baseline_value # 0
     /\ XLess(ThresholdsOf(CallType).critical))
    => /\ IsResult(ret)
       /\ ret.severity = "critical"

\* accuracy from 20 to 17: -15 %, below the critical threshold of -10 %
C3_Witness ==
    /\ cpc = "returned"
    /\ call = [metric_name |-> N_backchannel_accuracy, baseline_value |-> 20,
               current_value |-> 17]
    /\ IsResult(ret)
    /\ ret.severity = "critical"
    /\ ret.change_percent = Frac(-15, 1)

\* C4: the comparisons are strict, for both directions: a change fraction equal to the
\* critical threshold gives severity warning, and one equal to the warning threshold
\* gives no result.
C4_StrictBoundaries ==
    (/\ cpc = "returned"
     /\ CallType # NoType
     /\ call.baseline_value # 0)
    => /\ XEquals(ThresholdsOf(CallType).critical)
            => IsResult(ret) /\ ret.severity = "warning"
       /\ XEquals(ThresholdsOf(CallType).warning) => ret = None

\* latency_ms from 10 to 13: exactly the critical threshold of +30 %, reported as warning
C4_Witness ==
    /\ cpc = "returned"
    /\ call = [metric_name |-> N_tts_latency_ms, baseline_value |-> 10, current_value |-> 13]
    /\ XEquals(ThresholdsOf(CallType).critical)
    /\ IsResult(ret)
    /\ ret.severity = "warning"

\* C5: for a typed metric and a nonzero baseline, a change beyond the warning threshold
\* and not beyond the critical one gives severity warning with
\* threshold_exceeded = |x - warning| * 100, and a change not beyond the warning
\* threshold gives no result.
C5_WarningBand ==
    (/\ cpc = "returned"
     /\ CallType # NoType
     /\ call.baseline_value # 0)
    => /\ (Beyond(ThresholdsOf(CallType).warning) /\ ~Beyond(ThresholdsOf(CallType).critical))
            => /\ IsResult(ret)
               /\ ret.severity = "warning"
               /\ IsAbsExcess(ret.threshold_exceeded, ThresholdsOf(CallType).warning)
       /\ ~Beyond(ThresholdsOf(CallType).warning) => ret = None

\* accuracy from 30 to 28: -6.67 %, 5/3 points beyond the warning threshold of -5 %
C5_Witness ==
    /\ cpc = "returned"
    /\ call = [metric_name |-> N_backchannel_accuracy, baseline_value |-> 30,
               current_value |-> 28]
    /\ IsResult(ret)
    /\ ret.severity = "warning"
    /\ ret.threshold_exceeded = Frac(5, 3)

\* C6: with a baseline value of 0, whatever the name and the current value, the call
\* returns no result, raises nothing, and nothing is added to a bucket.
C6_ZeroBaseline ==
    (cpc # "call" /\ call.baseline_value = 0)
    => /\ cpc = "returned"
       /\ ret = None
       /\ call_regs = EmptyBuckets

\* wer from 0 to 30, a typed metric with a nonzero current value
C6_Witness ==
    /\ cpc = "returned"
    /\ call = [metric_name |-> N_stt_wer_clean, baseline_value |-> 0, current_value |-> 30]
    /\ ret = None
    /\ call_regs = EmptyBuckets

\* C8: a result is produced for a lower-is-better type only when the value increased,
\* and for a higher-is-better type only when it decreased, for every nonzero baseline.
C8_OnlyUnfavourableDirection ==
    (cpc = "returned" /\ IsResult(ret))
    => /\ CallType \in LowerTypes => call.current_value > call.baseline_value
       /\ CallType \in HigherTypes => call.current_value < call.baseline_value

(***************************************************************************)
(* Properties of the process, checked under Spec.                          *)
(***************************************************************************)
Severities == {"critical", "warning", "info"}

\* one of the six taxonomy keys occurs in the name
HasTaxonomyKey(name) == \E k \in LowerTypes \cup HigherTypes : IsSubstring(k, name)

\* the files of the current directory that the scan visits, before save_report adds its own
Scanned == {f \in current_dir : MatchesGlob(f)}
FilesWith(outcome) == {handled[i].file : i \in {j \in 1..Len(handled) : handled[j].outcome = outcome}}

\* C1, as written: the process exits with 1 if and only if the critical bucket holds a
\* result, and with 0 otherwise.
C1_ExitOneIffCritical ==
    exit_status # << >>
    => /\ exit_status \in {<<0>>, <<1>>}
       /\ exit_status = <<1>> <=> Len(regressions.critical) > 0

\* C1, amended: a run that reaches the end of main exits with 1 if and only if the
\* critical bucket holds a result, and with 0 otherwise (warnings alone give 0); a run
\* ended by a snapshot file that json.load rejects exits with 1 whatever the buckets hold.
C1_ExitStatus ==
    /\ pc = "done" => exit_status = IF Len(regressions.critical) > 0 THEN <<1>> ELSE <<0>>
    /\ pc = "crashed" => exit_status = <<1>>
    /\ pc \notin {"done", "crashed"} => exit_status = << >>

\* a completed run with warnings and no critical result: status 0
C1_Witness ==
    /\ pc = "done"
    /\ Len(regressions.warning) > 0
    /\ Len(regressions.critical) = 0
    /\ exit_status = <<0>>

\* C7: a metric whose name contains no taxonomy key is in no bucket and in no saved
\* report.
C7_UntypedNeverReported ==
    /\ \A s \in Severities : \A i \in 1..Len(regressions[s]) :
          HasTaxonomyKey(regressions[s][i].metric_name)
    /\ \A i \in 1..Len(report.regressions) :
          HasTaxonomyKey(report.regressions[i].metric_name)

\* custom_thing_unrelated compared last, from 22 to 30 (+36 %), and the report saved
C7_Witness ==
    /\ pc = "done"
    /\ last.op = "check"
    /\ last.name = N_custom_thing_unrelated
    /\ ~HasTaxonomyKey(last.name)
    /\ last.baseline_value = 22
    /\ last.current_value = 30
    /\ last.result = None
    /\ report.total_regressions > 0

\* C9: the step of a current file without a baseline file adds no result, raises
\* nothing and leaves the remaining files to be visited; when the scan has returned,
\* the files compared are exactly the scanned files that have a baseline file.
C9_MissingBaselineSkipped ==
    /\ [][(pc = "file_loop" /\ files # << >> /\ Head(files) \notin baseline_dir)
            => /\ regressions' = regressions
               /\ exit_status' = << >>
               /\ pc' = "file_loop"
               /\ files' = Tail(files)]_vars
    /\ [](pc \in {"exit", "done"}
            => /\ FilesWith("compared") = {f \in Scanned : f \in baseline_dir}
               /\ FilesWith("skipped") = {f \in Scanned : f \notin baseline_dir})

\* a file skipped for want of a baseline, then another file compared with a result
C9_Witness ==
    /\ pc = "done"
    /\ Len(handled) = 2
    /\ handled[1].outcome = "skipped"
    /\ handled[2].outcome = "compared"
    /\ Len(regressions.critical) > 0

\* C10: the step of a metric that the baseline file lacks adds no result, raises
\* nothing and leaves the remaining metrics of the file to be compared; and every
\* result a step adds is for the metric of that step, present in both files.
C10_UnmatchedMetricSkipped ==
    [][pc = "metric_loop"
         => /\ Head(cur_items).name \notin DOMAIN baseline_metrics
                 => /\ regressions' = regressions
                    /\ exit_status' = << >>
                    /\ pc' # "crashed"
                    /\ cur_items' = Tail(cur_items)
                    /\ Tail(cur_items) # << >> => pc' = "metric_loop"
            /\ \A s \in Severities :
                  \A i \in (Len(regressions[s]) + 1)..Len(regressions'[s]) :
                      /\ regressions'[s][i].metric_name = Head(cur_items).name
                      /\ Head(cur_items).name \in DOMAIN baseline_metrics]_vars

\* a metric of the current file alone was skipped, the baseline file holds a metric
\* the current file lacks, and the next metric, present in both, is still to be compared
C10_Witness ==
    /\ pc = "metric_loop"
    /\ last.op = "skip_metric"
    /\ Len(cur_items) = 1
    /\ Head(cur_items).name \in DOMAIN baseline_metrics
    /\ \E n \in DOMAIN baseline_metrics : n # Head(cur_items).name

(***************************************************************************)
(* C11: the info bucket of detect_regressions is empty in every state of   *)
(* every run, and no result that check_regression returns to the metric    *)
(* loop, nor any result held in a bucket, has the severity 'info'.         *)
(***************************************************************************)
C11_InfoBucketEmpty ==
    /\ regressions.info = << >>
    /\ IsResult(last.result) => last.result.severity \in {"critical", "warning"}
    /\ \A s \in Severities : \A i \in 1..Len(regressions[s]) :
          /\ regressions[s][i].severity = s
          /\ regressions[s][i].severity # "info"
    /\ pc \in {"exit", "done"} => report.by_severity["info"] = 0

\* a finished run whose last comparison was a typed metric, on a non-zero baseline, that
\* did not regress: the case in which severity keeps its initial value 'info'
C11_Witness ==
    /\ pc = "done"
    /\ last.op = "check"
    /\ last.result = None
    /\ last.baseline_value # 0
    /\ HasTaxonomyKey(last.name)
    /\ regressions.info = << >>

(***************************************************************************)
(* C12: the detector never reads a raw-sample dump: no file that           *)
(* load_metrics has opened, in either directory, is a `detailed_<name>`    *)
(* file of save_to_file, also when such files are present in both          *)
(* directories.                                                            *)
(***************************************************************************)
IsDetailedName(file_name) ==
    /\ Len(file_name) >= Len(DetailedPrefix)
    /\ SubSeq(file_name, 1, Len(DetailedPrefix)) = DetailedPrefix

C12_DetailedDumpNeverRead ==
    \A i \in 1..Len(handled) :
        handled[i].outcome \in {"compared", "failed"} => ~IsDetailedName(handled[i].file)

(***************************************************************************)
(* C13: get_metric_type returns the first key, in the fixed order wer,     *)
(* latency_ms, false_interruption_rate, accuracy, pesq, success_rate, that *)
(* occurs as a substring of the metric name; it returns no type exactly    *)
(* when none of the keys occurs in the name; the returned type is          *)
(* determined by the name alone.                                           *)
(***************************************************************************)
KeyOrder ==
    <<K_wer, K_latency_ms, K_false_interruption_rate, K_accuracy, K_pesq, K_success_rate>>

Occurs(k, name) ==
    \E i \in 1..Len(name) : i + Len(k) - 1 <= Len(name) /\ SubSeq(name, i, i + Len(k) - 1) = k

C13_FirstKeyInOrder ==
    tpc = "returned"
    => /\ (ctype = NoType) <=> (\A i \in 1..Len(KeyOrder) : ~Occurs(KeyOrder[i], call.metric_name))
       /\ ctype # NoType
          => \E i \in 1..Len(KeyOrder) :
                /\ ctype = KeyOrder[i]
                /\ Occurs(KeyOrder[i], call.metric_name)
                /\ \A j \in 1..(i - 1) : ~Occurs(KeyOrder[j], call.metric_name)

\* a name holding two keys, the later one of the order first in the text: the earlier
\* key of the order is returned
C13_Witness ==
    /\ tpc = "returned"
    /\ call.metric_name = N_pesq_latency_ms
    /\ Occurs(K_pesq, call.metric_name)
    /\ ctype = K_latency_ms

(***************************************************************************)
(* C14: the values that detect_regressions compares are the `mean` fields  *)
(* of the two stats records (0 when a record has none): the baseline_value *)
(* and current_value of an iteration and of its result are those means,    *)
(* and two iterations on the same name and means that differ only in the   *)
(* other statistics of the records have the same outcome.                  *)
(***************************************************************************)
MeanOr0(mean) == IF mean = << >> THEN 0 ELSE mean[1]

C14_MeansCompared ==
    bpc = "done"
    => /\ \A r \in 1..2 :
             /\ body_out[r].op = "check"
             /\ body_out[r].baseline_value = MeanOr0(body_in.baseline_mean)
             /\ body_out[r].current_value = MeanOr0(body_in.current_mean)
             /\ IsResult(body_out[r].result)
                => /\ body_out[r].result.baseline_value = MeanOr0(body_in.baseline_mean)
                   /\ body_out[r].result.current_value = MeanOr0(body_in.current_mean)
       /\ body_out[1] = body_out[2]

\* two iterations that report a regression from records whose other statistics all differ
C14_Witness ==
    /\ bpc = "done"
    /\ IsResult(body_out[1].result)
    /\ \A k \in OtherStatKeys :
          /\ body_in.current_other[1][k] # body_in.current_other[2][k]
          /\ body_in.baseline_other[1][k] # body_in.baseline_other[2][k]

(***************************************************************************)
(* C15: in every step of a collector every series that exists keeps its    *)
(* position, its name and its samples as a prefix of its samples after the *)
(* step; a step of record(name, v) leaves the series `name` (empty if it   *)
(* was absent) with exactly one more sample, of value v, at its end, and   *)
(* every other series as it was; a step of any other operation leaves      *)
(* self.metrics as it was.                                                 *)
(***************************************************************************)
IsPrefix(s, t) == Len(s) <= Len(t) /\ SubSeq(t, 1, Len(s)) = s
SamplesOrNone(d, name) == IF HasKey(d, name) THEN SeriesOf(d, name) ELSE << >>

C15_AppendOnly ==
    [][/\ \A i \in 1..Len(metrics) :
             /\ i <= Len(metrics')
             /\ metrics'[i].name = metrics[i].name
             /\ IsPrefix(metrics[i].samples, metrics'[i].samples)
       /\ IF now' # now
          THEN /\ cret'.op = "record"
               /\ HasKey(metrics', cret'.arg)
               /\ Len(SeriesOf(metrics', cret'.arg))
                     = Len(SamplesOrNone(metrics, cret'.arg)) + 1
               /\ IsPrefix(SamplesOrNone(metrics, cret'.arg), SeriesOf(metrics', cret'.arg))
               /\ SeriesOf(metrics', cret'.arg)[Len(SeriesOf(metrics', cret'.arg))].value
                     = cret'.value
               /\ \A i \in 1..Len(metrics') :
                     metrics'[i].name # cret'.arg
                     => i <= Len(metrics) /\ metrics'[i] = metrics[i]
          ELSE metrics' = metrics]_vars

\* a record that appended a second sample to a series, and a record that created a
\* second series next to an existing one
C15_Witness ==
    /\ cret.op = "record"
    /\ \/ Len(metrics) = 1 /\ Len(metrics[1].samples) = 2
       \/ Len(metrics) = 2 /\ metrics[2].name = cret.arg

(***************************************************************************)
(* C17: get_stats raises in no state of a collector; for a name with no    *)
(* series it returns the empty dict and the collector still has no series  *)
(* of that name; for a series of one sample it returns the nine statistics *)
(* with count = 1, stdev = 0 and mean, median, min, max, p50, p95 and p99  *)
(* all equal to the value of the sample.                                   *)
(***************************************************************************)
NineStats == {"count", "mean", "median", "stdev", "min", "max", "p50", "p95", "p99"}

C17_GetStatsTotal ==
    cret.op = "get_stats"
    => /\ ~IsError(cret.result)
       /\ (cret.result = << >>) <=> ~HasKey(metrics, cret.arg)
       /\ \A i \in 1..Len(metrics) : Len(metrics[i].samples) > 0
       /\ (HasKey(metrics, cret.arg) /\ Len(SamplesOrNone(metrics, cret.arg)) = 1)
          => /\ DOMAIN cret.result = NineStats
             /\ cret.result.count = 1
             /\ cret.result.stdev = RatZero
             /\ \A k \in NineStats \ {"count", "stdev"} :
                   cret.result[k] = RatOf(SeriesOf(metrics, cret.arg)[1].value)

\* get_stats of a series of one sample, in a collector that holds another series too
C17_Witness ==
    /\ cret.op = "get_stats"
    /\ Len(metrics) = 2
    /\ HasKey(metrics, cret.arg)
    /\ Len(SamplesOrNone(metrics, cret.arg)) = 1
    /\ cret.result.count = 1

(***************************************************************************)
(* C20: after a save_to_file that returned, the summary file it wrote,     *)
(* read back with json.load, has the run_id of the collector, one entry    *)
(* per series of the collector under the same names, and for every name a  *)
(* stats dict equal to what get_stats returns for it.                      *)
(***************************************************************************)
RoundTrips(loaded) ==
    /\ loaded.run_id = run_id
    /\ {loaded.metrics[i].name : i \in 1..Len(loaded.metrics)}
          = {metrics[i].name : i \in 1..Len(metrics)}
    /\ Len(loaded.metrics) = Len(metrics)
    /\ \A i \in 1..Len(loaded.metrics) :
          loaded.metrics[i].stats = get_stats(metrics, loaded.metrics[i].name)

C20_SummaryRoundTrip ==
    (cret.op = "save_to_file" /\ cret.result = None)
    => /\ cret.arg \in DOMAIN disk
       /\ disk[cret.arg].kind = "summary_text"
       /\ RoundTrips(json_load_summary(disk[cret.arg]))

\* a save of a series whose mean is no integer and whose standard deviation is not 0
C20_Witness ==
    /\ cret.op = "save_to_file"
    /\ cret.result = None
    /\ cret.arg \in DOMAIN disk
    /\ \E i \in 1..Len(metrics) :
          /\ get_stats(metrics, metrics[i].name).mean.den # 1
          /\ get_stats(metrics, metrics[i].name).stdev # RatZero

(***************************************************************************)
(* C18: for a series of fewer than 20 samples the p95 of get_stats is the  *)
(* max; for a series of fewer than 100 samples the p99 is the max; for a   *)
(* series of more than one sample the p50 is the median.                   *)
(***************************************************************************)
StatsReturned == cret.op = "get_stats" /\ HasKey(metrics, cret.arg)
CountOf(name) == Len(SamplesOrNone(metrics, name))

C18_PercentileFallbacks ==
    StatsReturned
    => /\ DOMAIN cret.result = NineStats
       /\ cret.result.count = CountOf(cret.arg)
       /\ CountOf(cret.arg) < 20 => cret.result.p95 = cret.result.max
       /\ CountOf(cret.arg) < 100 => cret.result.p99 = cret.result.max
       /\ CountOf(cret.arg) > 1 => cret.result.p50 = cret.result.median

\* a series of 19 samples whose values are not all equal, and its statistics
C18_Witness ==
    /\ StatsReturned
    /\ CountOf(cret.arg) = 19
    /\ cret.result.min # cret.result.max
    /\ cret.result.p95 = cret.result.max
    /\ cret.result.p50 = cret.result.median

(***************************************************************************)
(* C19: for every series min <= max; for a series of at least 100 samples  *)
(* min <= p50 <= median <= p95 <= p99 <= max.                              *)
(***************************************************************************)
C19_OrderedStatistics ==
    StatsReturned
    => /\ DOMAIN cret.result = NineStats
       /\ RatLE(cret.result.min, cret.result.max)
       /\ CountOf(cret.arg) >= 100
          => /\ RatLE(cret.result.min, cret.result.p50)
             /\ RatLE(cret.result.p50, cret.result.median)
             /\ RatLE(cret.result.median, cret.result.p95)
             /\ RatLE(cret.result.p95, cret.result.p99)
             /\ RatLE(cret.result.p99, cret.result.max)

\* a series of at least 100 samples with the percentiles strictly between min and max
\* and p95 below p99
C19_Witness ==
    /\ StatsReturned
    /\ CountOf(cret.arg) >= 100
    /\ RatLT(cret.result.min, cret.result.p50)
    /\ RatLT(cret.result.median, cret.result.p95)
    /\ RatLT(cret.result.p95, cret.result.p99)
    /\ RatLT(cret.result.p99, cret.result.max)

(***************************************************************************)
(* C16: once every producer's call of record has returned, each series of  *)
(* the shared collector holds exactly one sample per call made for its     *)
(* name, next to the samples it held before: the sample of every producer  *)
(* is in the series of its name, once, and a series has no other new       *)
(* sample.                                                                 *)
(***************************************************************************)
RaceSeries(name) ==
    IF HasKey(r_metrics, name) THEN r_heap[r_metrics[IndexOf(r_metrics, name)].ref]
    ELSE << >>
RecordedBy(p, name) ==
    {j \in 1..Len(RaceSeries(name)) : RaceSeries(name)[j].value = p}

C16_NoSampleLost ==
    (\A p \in Producers : r_prod[p].pc = "returned")
    => /\ \A p \in Producers : Cardinality(RecordedBy(p, r_prod[p].metric_name)) = 1
       /\ \A name \in RaceNames :
             Cardinality({j \in 1..Len(RaceSeries(name)) : RaceSeries(name)[j].value # 0})
               = Cardinality({p \in Producers : r_prod[p].metric_name = name})


(***************************************************************************)
(* compare_with_baseline: what it lists.                                   *)
(***************************************************************************)
\* a call of compare_with_baseline that returned its comparison
Compared == cret.op = "compare_with_baseline" /\ ~IsError(cret.result)
\* the metrics of the baseline the call loaded
ComparedBaseline == Get(cret.arg.doc, "metrics", << >>)
ListedIn(list, name) == \E i \in 1..Len(list) : list[i].metric = name
InBoth(name) == HasKey(metrics, name) /\ name \in DOMAIN ComparedBaseline
BaselineMean(name) == Get(ComparedBaseline[name], "mean", 0)
CurrentMean(name) == py_mean(ValuesOf(SeriesOf(metrics, name)))
\* (current.mean - baseline.mean) / baseline.mean * 100
ChangePercent(name) == CmpChangePct(BaselineMean(name), CurrentMean(name))
NamedLowerIsBetter(name) == IsPrefix(K_wer, name) \/ EndsWith(name, K_latency_ms)
NamedHigherIsBetter(name) == IsPrefix(K_pesq, name) \/ EndsWith(name, K_accuracy)

\* C21 (as stated): a metric is listed under regressions if and only if it is in the
\* current summary and in the baseline, the baseline mean is not zero, and either the
\* name is lower-is-better and changePercent > 20, or the name is higher-is-better and
\* changePercent < -5.
C21_RegressionsIff ==
    Compared =>
        \A name \in CmpNames :
            ListedIn(cret.result.regressions, name) <=>
                /\ InBoth(name)
                /\ BaselineMean(name) # 0
                /\ \/ NamedLowerIsBetter(name) /\ RatGT(ChangePercent(name), RatOf(20))
                   \/ NamedHigherIsBetter(name) /\ RatLT(ChangePercent(name), RatOf(0 - 5))

\* C21 (amended): as above, the higher-is-better cutoff applying only to a name that is
\* not lower-is-better: a name of both families is compared as lower-is-better.
C21_RegressionsIffFirstFamily ==
    Compared =>
        \A name \in CmpNames :
            ListedIn(cret.result.regressions, name) <=>
                /\ InBoth(name)
                /\ BaselineMean(name) # 0
                /\ \/ NamedLowerIsBetter(name) /\ RatGT(ChangePercent(name), RatOf(20))
                   \/ /\ ~NamedLowerIsBetter(name)
                      /\ NamedHigherIsBetter(name)
                      /\ RatLT(ChangePercent(name), RatOf(0 - 5))

\* a comparison of two metrics that both fell by a tenth: the higher-is-better one is a
\* regression, the one of both families is not
C21_Witness ==
    /\ Compared
    /\ InBoth(N_pesq_score) /\ InBoth(N_pesq_latency_ms)
    /\ BaselineMean(N_pesq_score) = 20 /\ BaselineMean(N_pesq_latency_ms) = 20
    /\ CurrentMean(N_pesq_score) = RatOf(18) /\ CurrentMean(N_pesq_latency_ms) = RatOf(18)
    /\ ListedIn(cret.result.regressions, N_pesq_score)
    /\ ~ListedIn(cret.result.regressions, N_pesq_latency_ms)

\* C22: a metric is listed under improvements only when |changePercent| > 5 and the
\* change is a decrease for a lower-is-better name, an increase for a higher-is-better
\* name.
C22_ImprovementsFavorable ==
    Compared =>
        \A name \in CmpNames :
            ListedIn(cret.result.improvements, name) =>
                /\ RatGT(RatAbs(ChangePercent(name)), RatOf(5))
                /\ \/ NamedLowerIsBetter(name) /\ RatLT(ChangePercent(name), RatZero)
                   \/ NamedHigherIsBetter(name) /\ RatGT(ChangePercent(name), RatZero)

CountListed(list, name) == Cardinality({i \in 1..Len(list) : list[i].metric = name})

\* C30: in the result of compare_with_baseline a metric name appears at most once in
\* regressions and improvements taken together.
C30_ListedAtMostOnce ==
    Compared =>
        \A name \in CmpNames :
            CountListed(cret.result.regressions, name)
              + CountListed(cret.result.improvements, name) <= 1

\* a comparison that lists both a regression and an improvement
C30_Witness ==
    /\ Compared
    /\ cret.result.regressions # << >>
    /\ cret.result.improvements # << >>

(***************************************************************************)
(* get_stats: the p95 of a series of at least 20 samples.                  *)
(***************************************************************************)
RecordedValues(name) == RangeOf(ValuesOf(SeriesOf(metrics, name)))
\* the recorded value of rank k, the smallest having rank 1
Ranked(name, k) == Kth(ValuesOf(SeriesOf(metrics, name)), k)
\* the rank below the 19th of the 20-quantile cut points, and the weight of the next rank
P95Rank(count) == (19 * (count + 1)) \div 20
P95Weight(count) == 19 * (count + 1) - 20 * P95Rank(count)

\* C23 (as stated): for a series of at least 20 samples the p95 returned by get_stats
\* is equal to one of the recorded values.
C23_P95IsRecorded ==
    StatsReturned /\ CountOf(cret.arg) >= 20
    => \E v \in RecordedValues(cret.arg) : cret.result.p95 = RatOf(v)

\* C23 (amended): for a series of at least 20 samples the p95 is the 19th cut point of
\* the 20-quantiles by linear interpolation: with r = 19 * (count + 1) div 20 and
\* w = 19 * (count + 1) - 20 * r it is (value of rank r * (20 - w) + value of rank
\* r + 1 * w) / 20, which lies between these two recorded values.
C23_P95Interpolates ==
    StatsReturned /\ CountOf(cret.arg) >= 20
    => /\ P95Rank(CountOf(cret.arg)) + 1 <= CountOf(cret.arg)
       /\ cret.result.p95 =
             Frac(Ranked(cret.arg, P95Rank(CountOf(cret.arg)))
                     * (20 - P95Weight(CountOf(cret.arg)))
                  + Ranked(cret.arg, P95Rank(CountOf(cret.arg)) + 1)
                     * P95Weight(CountOf(cret.arg)),
                  20)
       /\ RatLE(RatOf(Ranked(cret.arg, P95Rank(CountOf(cret.arg)))), cret.result.p95)
       /\ RatLE(cret.result.p95, RatOf(Ranked(cret.arg, P95Rank(CountOf(cret.arg)) + 1)))

\* a series of at least 20 samples whose p95 is strictly between two recorded values of
\* consecutive ranks, and so is none of the recorded values
C23_Witness ==
    /\ StatsReturned
    /\ CountOf(cret.arg) >= 20
    /\ RatLT(RatOf(Ranked(cret.arg, P95Rank(CountOf(cret.arg)))), cret.result.p95)
    /\ RatLT(cret.result.p95, RatOf(Ranked(cret.arg, P95Rank(CountOf(cret.arg)) + 1)))
    /\ \A v \in RecordedValues(cret.arg) : cret.result.p95 # RatOf(v)

(***************************************************************************)
(* detect_regressions: the classification of one metric.                   *)
(***************************************************************************)
\* the outcome of a metric by its name and its two means alone: no result, or a result
\* with its severity, change_percent and threshold_exceeded
OutcomeOf(name, baseline_mean, current_mean) ==
    check_regression(name, baseline_mean, current_mean)
\* the buckets after an outcome was filed
Filed(outcome, regs) ==
    IF IsResult(outcome)
    THEN [regs EXCEPT ![outcome.severity] = Append(@, outcome)]
    ELSE regs

\* C24: whatever files and metrics a run has visited before and in whatever order, the
\* step that compares a metric present in both files gives it the outcome determined by
\* its name, baseline mean and current mean, and files it so; two runs that compare a
\* metric with the same name and means give it the same outcome.
C24_IndependentClassification ==
    [][(pc = "metric_loop" /\ Head(cur_items).name \in DOMAIN baseline_metrics)
         => /\ last'.op = "check"
            /\ last'.name = Head(cur_items).name
            /\ last'.result =
                  OutcomeOf(Head(cur_items).name,
                            Get(baseline_metrics[Head(cur_items).name], "mean", 0),
                            Get(Head(cur_items).stats, "mean", 0))
            /\ regressions' = Filed(last'.result, regressions)
            /\ pc' # "crashed"]_vars

\* a metric of a second file compared after a critical result and a warning of the first
\* file, itself critical
C24_Witness ==
    /\ last.op = "check"
    /\ IsResult(last.result)
    /\ last.result.severity = "critical"
    /\ Len(handled) = 2
    /\ handled[1].outcome = "compared"
    /\ Len(regressions.critical) = 2
    /\ Len(regressions.warning) = 1
    /\ regressions.critical[2] = last.result
    /\ regressions.warning[1].metric_name # last.name

(***************************************************************************)
(* run_conversation: its results.                                          *)
(***************************************************************************)
AllAudioAvailable == \A k \in 1..Len(script) : ~AudioMissing(script[k])

\* C25: when the audio of every turn of the script is available, run_conversation
\* returns one result per turn of the script, in script order: the k-th result is the
\* one of the k-th turn and of its request, whether the request succeeded or failed.
C25_OneResultPerTurn ==
    (spc = "returned" /\ AllAudioAvailable)
    => /\ Len(results) = Len(script)
       /\ Len(sent) = Len(script)
       /\ \A k \in 1..Len(results) :
             /\ sent[k].turn = k
             /\ results[k].total_time_ms = sent[k].response.total_time_ms
             /\ sent[k].response.success
                   => /\ results[k].turn = k
                      /\ results[k].assistant_text = sent[k].response.assistant_text
             /\ ~sent[k].response.success => results[k] = sent[k].response

\* a script of two turns returned with the result of a failed request, then the result
\* of an answered one
C25_Witness ==
    /\ spc = "returned"
    /\ AllAudioAvailable
    /\ Len(script) = 2
    /\ Len(results) = 2
    /\ ~sent[1].response.success
    /\ sent[2].response.success

\* the fields the tests read on each result
ResultFields == {"turn", "total_time_ms", "validation_passed"}

\* C26: every result of run_conversation, the result of a turn whose request failed
\* included, carries the fields turn, total_time_ms and validation_passed.
C26_ResultFields ==
    \A k \in 1..Len(results) : ResultFields \subseteq DOMAIN results[k]

(***************************************************************************)
(* The two comparators on one name.                                        *)
(***************************************************************************)
\* the name is of one of the two families of compare_with_baseline
CollectorClassifies(name) == CmpLowerIsBetter(name) \/ CmpHigherIsBetter(name)

\* C27: for every metric name that both the naming heuristic of compare_with_baseline
\* and get_metric_type classify, the two assign the same direction: the type returned
\* by get_metric_type is lower-is-better exactly when the heuristic takes the name as
\* lower-is-better.
C27_DirectionsAgree ==
    (tpc = "returned" /\ ctype # NoType /\ CollectorClassifies(call.metric_name))
    => (ctype \in LowerIsBetterTypes <=> CmpLowerIsBetter(call.metric_name))

(***************************************************************************)
(* detect_regressions on the snapshots of save_to_file.                    *)
(***************************************************************************)
\* the files that detect_regressions has enumerated: those visited and those to visit
Enumerated ==
    {handled[i].file : i \in 1..Len(handled)} \cup {files[i] : i \in 1..Len(files)}
\* the summary snapshots that save_to_file wrote: under an explicit name, under the
\* default name
SavedSummaries == {F_stt_latency_metrics, default_filename(RunId_a)}

\* C28 (as stated): a summary snapshot in the current directory is enumerated by
\* detect_regressions, be it saved under the default filename or under an explicit
\* *_metrics.json name.
C28_DefaultNameEnumerated ==
    pc # "start" => \A f \in current_dir \cap SavedSummaries : f \in Enumerated

\* C28 (amended): a summary snapshot saved under an explicit *_metrics.json name is
\* enumerated; the one saved under the default filename is not: every enumerated file
\* has a name ending in _metrics.json, which the default filename does not.
C28_OnlyMetricsNamesEnumerated ==
    pc # "start"
    => /\ F_stt_latency_metrics \in current_dir => F_stt_latency_metrics \in Enumerated
       /\ default_filename(RunId_a) \notin Enumerated
       /\ \A f \in Enumerated : EndsWith(f, GlobSuffix)

\* a current directory holding both summaries, scanned to the end: the explicit name
\* was compared, the default name was not enumerated
C28_Witness ==
    /\ pc = "done"
    /\ SavedSummaries \subseteq current_dir
    /\ F_stt_latency_metrics \in FilesWith("compared")
    /\ default_filename(RunId_a) \notin Enumerated

(***************************************************************************)
(* save_report: the report and the buckets it was built from.              *)
(***************************************************************************)
\* the bucket and the place in it that the i-th listed entry must come from when the
\* buckets are listed critical first, then warning, then info
BucketAt(i) ==
    IF i <= Len(regressions.critical) THEN "critical"
    ELSE IF i <= Len(regressions.critical) + Len(regressions.warning) THEN "warning"
    ELSE "info"
PlaceAt(i) ==
    IF i <= Len(regressions.critical) THEN i
    ELSE IF i <= Len(regressions.critical) + Len(regressions.warning)
    THEN i - Len(regressions.critical)
    ELSE i - Len(regressions.critical) - Len(regressions.warning)

\* C29: in the saved report total_regressions is the sum of the three counts of
\* by_severity and the length of the list; the i-th entry has the severity of the bucket
\* it came from, which is the severity of its result; and the entries are listed
\* critical first, then warning.
C29_ReportConsistent ==
    pc \in {"exit", "done"}
    => /\ report.total_regressions =
             report.by_severity.critical + report.by_severity.warning
               + report.by_severity.info
       /\ report.total_regressions = Len(report.regressions)
       /\ \A s \in Severities : report.by_severity[s] = Len(regressions[s])
       /\ \A i \in 1..Len(report.regressions) :
             /\ report.regressions[i].severity = BucketAt(i)
             /\ regressions[BucketAt(i)][PlaceAt(i)].severity = BucketAt(i)
             /\ report.regressions[i].metric_name
                   = regressions[BucketAt(i)][PlaceAt(i)].metric_name
             /\ report.regressions[i].change_percent
                   = regressions[BucketAt(i)][PlaceAt(i)].change_percent
       /\ \A i, j \in 1..Len(report.regressions) :
             (report.regressions[i].severity = "warning"
                /\ report.regressions[j].severity = "critical") => j < i

\* a saved report of a critical result followed by a warning
C29_Witness ==
    /\ pc \in {"exit", "done"}
    /\ Len(report.regressions) = 2
    /\ report.regressions[1].severity = "critical"
    /\ report.regressions[2].severity = "warning"
    /\ regressions.warning # << >>
====
